---- MODULE Spec2Model ----
(***************************************************************************)
(* Model of zpigo: the Webhook Delivery Engine (internal/webhook) and the  *)
(* Session Orchestrator (internal/meow, internal/repository,               *)
(* internal/store/repositories, the session HTTP handlers).                *)
(*                                                                         *)
(* Three specifications share the variables:                               *)
(*   SpecWebhook  the delivery engine: configuration store, bounded queue, *)
(*                worker pool, retry goroutines;                           *)
(*   Spec         the session orchestrator: registry, pairing flow,        *)
(*                reconnection tasks, the session handlers;                *)
(*   SpecStartup  the reconnection supervisor alone, as at process boot.   *)
(***************************************************************************)
EXTENDS Integers, Sequences, FiniteSets, TLC

(***************************************************************************)
(* Bounds of the model                                                     *)
(***************************************************************************)
\* capacity of deliveryQueue in the model (make(chan *Delivery, 1000) in the code)
QueueCap == 2
\* number of workers handed to NewManager
Workers == 2
\* number of Delivery objects accepted into the queue over a behaviour
MaxDeliveries == 2
\* number of "queue full" warnings logged over a behaviour
MaxDrops == 1

(***************************************************************************)
(* Webhook Delivery Engine: values                                         *)
(***************************************************************************)
WSessions == {"s1"}
GlobalScope == "global"
Scopes == WSessions \cup {GlobalScope}

EventAll == "All"
EventTypes == {"Message"}
\* event data handed to Send: "chan" stands for a value json.Marshal rejects
EventData == {"data", "chan"}

StatusPending == "pending"
StatusSuccess == "success"
StatusFailed == "failed"
StatusExpired == "expired"

\* the value SetConfig stores for a zero MaxRetries
DefaultMaxRetries == 3

NoConfig == [None |-> TRUE]
NoSignature == [Header |-> "absent"]
NoRequest == [None |-> TRUE]

\* a URL is the sequence of its bytes
HttpPrefix == <<"h", "t", "t", "p", ":", "/", "/">>
HttpsPrefix == <<"h", "t", "t", "p", "s", ":", "/", "/">>
EndpointURL == HttpPrefix \o <<"e">>

\* the values SetConfig stores for a zero Timeout and a zero RetryDelay, in seconds
DefaultTimeout == 10
DefaultRetryDelay == 5

\* configurations a caller hands to SetConfig / SetGlobalConfig: a signed one
\* with two retries, and an unsigned one with a negative retry count (MaxRetries
\* is an int that neither SetConfig nor SetGlobalConfig validates)
ConfigInputs ==
    {[URL |-> EndpointURL, Enabled |-> TRUE, Events |-> <<EventAll>>, Secret |-> "k1",
      Timeout |-> DefaultTimeout, MaxRetries |-> 2, RetryDelay |-> DefaultRetryDelay],
     [URL |-> EndpointURL, Enabled |-> TRUE, Events |-> <<EventAll>>, Secret |-> "",
      Timeout |-> DefaultTimeout, MaxRetries |-> -1, RetryDelay |-> DefaultRetryDelay]}

VARIABLES
    configs,        \* wm.configs: session id -> Config
    globalConfig,   \* wm.globalConfig
    deliveryQueue,  \* wm.deliveryQueue: the ids of the queued Delivery objects, head first
    deliveries,     \* the Delivery objects created so far, by id
    producedBy,     \* history: the configuration that produced each Delivery
    holding,        \* per worker: the Delivery it is processing (0: blocked in select)
    request,        \* per worker: the HTTP request in flight
    retryPending,   \* Delivery ids with a retry goroutine sleeping
    stats,          \* wm.stats
    warnings,       \* number of "queue full" warnings logged, by call site
    configErr,      \* what the last SetConfig / SetGlobalConfig returned
    workerState,    \* per worker: "running", "stopped" (stop signal taken), "exited"
    stop,           \* Stop: where it is, and the number of stop signals taken
    queueClosed,    \* whether close(wm.deliveryQueue) has run
    fault,          \* the run-time panic that ended the process ("none": alive)
    sending         \* Delivery ids a queueDelivery call has put into the queue and
                    \* not yet counted in total_sent

\* what Stop and a panic touch
shutvars == <<workerState, stop, queueClosed, fault>>

wvars == <<configs, globalConfig, deliveryQueue, deliveries, producedBy,
           holding, request, retryPending, stats, warnings, configErr, shutvars,
           sending>>

VARIABLES
    sessionRepo,       \* the SessionRepository implementation wired in: "sql" or "bun"
    whatsmeowClients,  \* sm.whatsmeowClients: session id -> client (NoClient: no entry)
    nextClient,        \* number of whatsmeow clients constructed so far
    sessions,          \* the sessions table: session id -> row (NoRow: no row)
    qrFlow,            \* per session: the QR channel and the handleQREvents goroutine on it
    reconnect,         \* per session: the reconnection goroutine of ConnectOnStartup
    connecting,        \* ids whose ConnectSession request has still to persist "connecting"
    qrRequest,         \* the ids among them whose request started handleQREvents
    superseded,        \* session id -> number of handleQREvents goroutines that still
                       \* range over an earlier QR channel of the session
    startup,           \* whether ConnectOnStartup has run
    lastCreate,        \* what the last call of CreateSession returned
    lastCall           \* the last call of another operation: what it returned and
                       \* the methods of the whatsmeow client it called

svars == <<sessionRepo, whatsmeowClients, nextClient, sessions, qrFlow, reconnect,
           connecting, qrRequest, superseded, startup, lastCreate, lastCall>>

VARIABLES
    cache,             \* cacheManager.cache: cache key -> SessionInfo (NoInfo: no item)
    zc,                \* the ZPigoClient of a session: IsActive, Subscriptions, mu
    handler,           \* where the goroutine that dispatches the events of zc is
    webhookCalls,      \* the callWebhook goroutines started, not yet run: their postmaps
    prepared,          \* the "Webhook preparado para envio" lines logged, by event type
    lastAuth           \* what the last call of ValidateAPIKey returned

cvars == <<cache, zc, handler, webhookCalls, prepared, lastAuth>>

vars == <<wvars, svars, cvars>>

WorkerIds == 1..Workers

(***************************************************************************)
(* Pure functions of the delivery engine                                   *)
(***************************************************************************)
\* mutant of shouldSendEvent: any non-empty list matches
shouldSendEventNonEmpty(configuredEvents, eventType) ==
    Len(configuredEvents) # 0

\* shouldSendEvent: an empty list matches nothing, "All" matches everything
shouldSendEvent(configuredEvents, eventType) ==
    /\ Len(configuredEvents) # 0
    /\ \E i \in 1..Len(configuredEvents) :
          configuredEvents[i] = EventAll \/ configuredEvents[i] = eventType

\* json.Marshal(delivery.Payload): fails on a value that has no JSON form
MarshalFails(payload) == payload.Event = "chan"
Marshal(payload) ==
    [Json |-> <<payload.Type, payload.SessionID, payload.Event>>]

\* hmac.New(sha256.New, secret); h.Write(payload); h.Sum(nil)
HmacSha256(secret, bytes) == [Key |-> secret, Msg |-> bytes]

\* "sha256=" + hex.EncodeToString(mac)
generateSignature(payloadBytes, secret) ==
    [Header |-> "sha256=", Hex |-> HmacSha256(secret, payloadBytes)]

\* resp.StatusCode() >= 200 && resp.StatusCode() < 300
IsSuccessCode(code) == code >= 200 /\ code < 300

\* the answers of the endpoint: 0 stands for a network error (err != nil)
NetError == 0
ResponseCodes == {NetError, 199, 200, 299, 300, 500}

\* isValidURL
isValidURL(url) ==
    /\ url # <<>>
    /\ Len(url) > 7
    /\ (SubSeq(url, 1, 7) = HttpPrefix \/ SubSeq(url, 1, 8) = HttpsPrefix)

ErrInvalidURL == "URL de webhook invalida"
PanicClosedChannel == "send on closed channel"

\* the process has not panicked
Alive == fault = "none"

\* incrementStat
incrementStat(st, stat) ==
    CASE stat = "total_sent" -> [st EXCEPT !.TotalSent = @ + 1]
      [] stat = "total_success" -> [st EXCEPT !.TotalSuccess = @ + 1]
      [] stat = "total_failed" -> [st EXCEPT !.TotalFailed = @ + 1]
      [] stat = "total_retries" -> [st EXCEPT !.TotalRetries = @ + 1]
      [] OTHER -> st

\* GetConfig
GetConfig(sessionID) ==
    IF sessionID \in DOMAIN configs /\ configs[sessionID] # NoConfig
    THEN configs[sessionID] ELSE NoConfig

(***************************************************************************)
(* Session Orchestrator: values                                            *)
(***************************************************************************)
SessionIds == {"s1", "s2"}

StatusDisconnected == "disconnected"
StatusConnecting == "connecting"
StatusConnected == "connected"

\* strings the code builds by concatenation are sequences of their parts, the
\* empty string is the empty sequence
EmptyString == <<>>

\* client.Store.ID: nil before pairing, the paired account's JID afterwards
NilJID == [User |-> "", Device |-> "", Server |-> ""]
\* the account whose phone scans the code of a session
AccountOf(id) ==
    [User |-> IF id = "s1" THEN "5511" ELSE "5522", Device |-> "7",
     Server |-> "s.whatsapp.net"]

\* JID.String(): user:device@server
JIDString(jid) == <<jid.User, ":", jid.Device, "@", jid.Server>>
\* strings.Split(client.Store.ID.User, ":")[0]; phone stays "" for an empty User
PhoneOf(jid) == jid.User

\* qrcode.Encode + base64: "data:image/png;base64," + base64(png(code))
EncodeQR(code) == <<"data:image/png;base64,", [Png |-> code]>>

\* the codes the QR channel hands out
QRCodes == {"2@c1"}

NoClient == [h |-> 0, connected |-> FALSE, storeID |-> NilJID]
NoRow == [Status |-> "absent", DeviceJid |-> EmptyString, QRCode |-> EmptyString,
          Phone |-> ""]
\* the row repo.Create inserts for a CreateSessionRequest
NewRow == [Status |-> StatusDisconnected, DeviceJid |-> EmptyString,
           QRCode |-> EmptyString, Phone |-> ""]
\* the row of a session that was paired before the process started
PairedRow(id) == [Status |-> StatusConnected, DeviceJid |-> JIDString(AccountOf(id)),
                  QRCode |-> EmptyString, Phone |-> PhoneOf(AccountOf(id))]

NoFlow == [state |-> "none", h |-> 0, chan |-> <<>>, closed |-> FALSE, codes |-> 0,
           wasSuccessful |-> FALSE, last |-> "none"]
NoTask == [pc |-> "none", err |-> "none"]
NoCall == [id |-> "", client |-> 0, err |-> "none"]
NoReturn == [op |-> "", id |-> "", err |-> "none", calls |-> <<>>]

ErrAlreadyExists == "ja existe"
ErrDeviceNotFound == "device nao encontrado"
ErrNoDeviceID == "device store sem ID valido"
ErrConnect == "erro ao conectar cliente"
ErrNotFound == "nao encontrada"
ErrAlreadyConnected == "ja esta conectada"
ErrNotConnected == "nao esta conectada"
ErrNotLoggedIn == "nao esta logada"
ErrAlreadyAuthenticated == "ja esta autenticada"
ErrConnectFailed == "erro ao conectar"
ErrPairPhone == "erro ao emparelhar telefone"
ErrLogout == "erro do logout"
ErrRowNotFound == "Sessao nao encontrada"

(***************************************************************************)
(* Session Info Cache and per-session client: values                       *)
(***************************************************************************)
\* the credentials requests carry
APIKeys == {"k1", "k2"}

\* BuildCacheKey: apiKey + ":" + sessionID
BuildCacheKey(apiKey, sessionID) == <<apiKey, ":", sessionID>>
CacheKeys == {BuildCacheKey(apiKey, id) : apiKey \in APIKeys, id \in SessionIds}

\* no item under a key
NoInfo == [ID |-> "", JID |-> EmptyString, APIKey |-> "", QRCode |-> EmptyString,
           Phone |-> "", Status |-> "absent"]

\* NewSessionInfoFromModel: the JID of the row is not copied
NewSessionInfoFromModel(id, session, apiKey) ==
    [ID |-> id, JID |-> EmptyString, APIKey |-> apiKey, QRCode |-> session.QRCode,
     Phone |-> session.Phone, Status |-> session.Status]

\* SessionInfo.Set: a key that is none of the cases changes nothing
Set(info, key, value) ==
    CASE key = "Id" -> [info EXCEPT !.ID = value]
      [] key = "Jid" -> [info EXCEPT !.JID = value]
      [] key = "APIKey" -> [info EXCEPT !.APIKey = value]
      [] key = "Qrcode" -> [info EXCEPT !.QRCode = value]
      [] key = "Phone" -> [info EXCEPT !.Phone = value]
      [] key = "Status" -> [info EXCEPT !.Status = value]
      [] OTHER -> info

\* CacheManager.UpdateSessionInfo: nothing happens without an item under the key
UpdateSessionInfo(c, cacheKey, key, value) ==
    IF c[cacheKey] # NoInfo THEN [c EXCEPT ![cacheKey] = Set(@, key, value)] ELSE c

\* CacheManager.DeleteSessionInfo
DeleteSessionInfo(c, cacheKey) == [c EXCEPT ![cacheKey] = NoInfo]

\* the events whatsmeow hands to the handler of a client: the four that flip
\* the active flag, two that write into the cache, one that only fills the
\* postmap, and one the switch has no case for
FlipEvents == {"Connected", "Disconnected", "LoggedOut", "StreamReplaced"}
ClassifiedEvents == FlipEvents \cup {"PairSuccess", "QR", "Message"}
ClientEvents == ClassifiedEvents \cup {"KeepAliveTimeout"}

\* the subscription lists UpdateSubscriptions is called with
SubscriptionLists == {<<>>, <<"All">>, <<"Message">>}

\* sync.RWMutex: the readers holding it, and whether a writer holds it or
\* waits for it
FreeMutex == [readers |-> 0, writer |-> "none"]
\* Lock returns once no reader and no writer holds the mutex
CanLock(mu) == mu.readers = 0 /\ mu.writer = "none"
\* RLock returns unless a writer holds the mutex or waits for it
CanRLock(mu) == mu.writer = "none"

\* number of events whatsmeow dispatches to the client
MaxEvents == 2

NoAuth == [apiKey |-> "", id |-> "", err |-> "none", from |-> "none"]
ErrAPIKeyRequired == "API key is required"
ErrSessionIDRequired == "session ID is required"
ErrSessionNotFound == "session not found"
ErrUnauthorized == "sessao nao autorizada"

\* NewZPigoClient for session s1 under credential k1: inactive, no
\* subscriptions; no event dispatched yet
NewZPigoClient ==
    /\ zc = [SessionID |-> "s1", APIKey |-> "k1", IsActive |-> FALSE,
             Subscriptions |-> <<>>, mu |-> FreeMutex]
    /\ handler = [pc |-> "idle", event |-> "", events |-> 0]
    /\ webhookCalls = <<>>
    /\ prepared = 0

ClientInit ==
    /\ NewZPigoClient
    /\ lastAuth = NoAuth

\* NewSessionManager: empty registry; the table is what the database holds
NewSessionManager(table, repo) ==
    /\ sessionRepo = repo
    /\ whatsmeowClients = [id \in SessionIds |-> NoClient]
    /\ nextClient = 0
    /\ sessions = table
    /\ qrFlow = [id \in SessionIds |-> NoFlow]
    /\ reconnect = [id \in SessionIds |-> NoTask]
    /\ connecting = {}
    /\ qrRequest = {}
    /\ superseded = [id \in SessionIds |-> 0]
    /\ startup = FALSE
    /\ lastCreate = NoCall
    /\ lastCall = NoReturn
    /\ cache = [key \in CacheKeys |-> NoInfo]

(***************************************************************************)
(* Webhook Delivery Engine: initial state (NewManager)                     *)
(***************************************************************************)
WInit ==
    /\ configs = [s \in WSessions |-> NoConfig]
    /\ globalConfig = NoConfig
    /\ deliveryQueue = <<>>
    /\ deliveries = <<>>
    /\ producedBy = <<>>
    /\ holding = [w \in WorkerIds |-> 0]
    /\ request = [w \in WorkerIds |-> NoRequest]
    /\ retryPending = {}
    /\ stats = [TotalSent |-> 0, TotalSuccess |-> 0, TotalFailed |-> 0, TotalRetries |-> 0]
    /\ warnings = [QueueFull |-> 0, RetryDropped |-> 0]
    /\ configErr = "none"
    /\ workerState = [w \in WorkerIds |-> "running"]
    /\ stop = [pc |-> "idle", sent |-> 0]
    /\ queueClosed = FALSE
    /\ fault = "none"
    /\ sending = {}

(***************************************************************************)
(* Configuration store                                                     *)
(***************************************************************************)
\* the defaults SetConfig fills in for zero values
WithDefaults(config) ==
    [config EXCEPT
        !.Timeout = IF @ = 0 THEN DefaultTimeout ELSE @,
        !.MaxRetries = IF @ = 0 THEN DefaultMaxRetries ELSE @,
        !.RetryDelay = IF @ = 0 THEN DefaultRetryDelay ELSE @]

\* mutant of the validation: every URL passes
AnyURL(url) == TRUE

\* the check both writes make before storing
URLAccepted(url) == isValidURL(url)

\* SetConfig: an invalid URL is refused; zero Timeout, MaxRetries and RetryDelay
\* are replaced by the defaults before storing
SetConfig(sessionID, config) ==
    /\ Alive
    /\ IF ~URLAccepted(config.URL)
       THEN /\ configErr' = ErrInvalidURL
            /\ UNCHANGED configs
       ELSE /\ configs' = [configs EXCEPT ![sessionID] = WithDefaults(config)]
            /\ configErr' = "none"
    /\ UNCHANGED <<globalConfig, deliveryQueue, deliveries, producedBy, holding,
                   request, retryPending, stats, warnings>>
    /\ UNCHANGED <<sending, svars, cvars, shutvars>>

\* DeleteConfig
DeleteConfig(sessionID) ==
    /\ Alive
    /\ configs[sessionID] # NoConfig
    /\ configs' = [configs EXCEPT ![sessionID] = NoConfig]
    /\ UNCHANGED <<globalConfig, deliveryQueue, deliveries, producedBy, holding,
                   request, retryPending, stats, warnings, configErr>>
    /\ UNCHANGED <<sending, svars, cvars, shutvars>>

\* SetGlobalConfig: an invalid URL is refused; the configuration is stored as
\* given
SetGlobalConfig(config) ==
    /\ Alive
    /\ IF ~URLAccepted(config.URL)
       THEN /\ configErr' = ErrInvalidURL
            /\ UNCHANGED globalConfig
       ELSE /\ globalConfig' = config
            /\ configErr' = "none"
    /\ UNCHANGED <<configs, deliveryQueue, deliveries, producedBy, holding,
                   request, retryPending, stats, warnings>>
    /\ UNCHANGED <<sending, svars, cvars, shutvars>>

(***************************************************************************)
(* Submission                                                              *)
(***************************************************************************)
\* the engine state queueDelivery reads and writes
Engine == [q |-> deliveryQueue, ds |-> deliveries, prod |-> producedBy,
           st |-> stats, warn |-> warnings]

NewDelivery(sessionID, config, eventType, eventData) ==
    [SessionID |-> sessionID,
     URL |-> config.URL,
     Payload |-> [Type |-> eventType, SessionID |-> sessionID, Event |-> eventData],
     Attempts |-> 0,
     MaxRetries |-> config.MaxRetries,
     Status |-> StatusPending,
     NextRetry |-> 0]

\* queueDelivery: the non-blocking send of the select, or the default branch
queueDelivery(m, sessionID, config, eventType, eventData) ==
    IF Len(m.q) < QueueCap
    THEN [m EXCEPT !.q = Append(@, Len(m.ds) + 1),
                   !.ds = Append(@, NewDelivery(sessionID, config, eventType, eventData)),
                   !.prod = Append(@, [Scope |-> sessionID, Secret |-> config.Secret,
                                     RetryDelay |-> config.RetryDelay]),
                   !.st = incrementStat(@, "total_sent")]
    ELSE [m EXCEPT !.warn.QueueFull = @ + 1]

\* Send: the session's configuration first, then the global one
SendResult(sessionID, eventType, eventData) ==
    LET config == GetConfig(sessionID)
        m1 == IF config # NoConfig /\ config.Enabled
                 /\ shouldSendEvent(config.Events, eventType)
              THEN queueDelivery(Engine, sessionID, config, eventType, eventData)
              ELSE Engine
    IN  IF globalConfig # NoConfig /\ globalConfig.Enabled
           /\ shouldSendEvent(globalConfig.Events, eventType)
        THEN queueDelivery(m1, GlobalScope, globalConfig, eventType, eventData)
        ELSE m1

\* Send; the select of queueDelivery on a closed queue is a send on a closed
\* channel, which panics
\* Manager.Send, while no more than n Delivery objects have been created
SendUpTo(n, sessionID, eventType, eventData) ==
    LET m == SendResult(sessionID, eventType, eventData)
    IN  /\ Alive
        /\ Len(m.ds) <= n
        /\ m.warn.QueueFull <= MaxDrops
        /\ IF queueClosed /\ m # Engine
           THEN /\ fault' = PanicClosedChannel
                /\ UNCHANGED <<deliveryQueue, deliveries, producedBy, stats, warnings>>
           ELSE /\ deliveryQueue' = m.q
                /\ deliveries' = m.ds
                /\ producedBy' = m.prod
                /\ stats' = m.st
                /\ warnings' = m.warn
                /\ UNCHANGED fault
        /\ UNCHANGED <<configs, globalConfig, holding, request, retryPending,
                       configErr, workerState, stop, queueClosed>>
        /\ UNCHANGED <<sending, svars, cvars>>

Send(sessionID, eventType, eventData) ==
    SendUpTo(MaxDeliveries, sessionID, eventType, eventData)

(***************************************************************************)
(* Workers                                                                 *)
(***************************************************************************)
\* mutant of the receive: the head is read but stays in the queue
ReceivePeek(q) == q

\* case delivery := <-wm.deliveryQueue: the receive takes the head off the queue
Receive(q) == Tail(q)

\* the request processDelivery builds: body, and the signature header when the
\* configuration found under delivery.SessionID has a secret
BuildRequest(delivery) ==
    LET payloadBytes == Marshal(delivery.Payload)
        config == GetConfig(delivery.SessionID)
    IN  [Body |-> payloadBytes,
         Signature |-> IF config # NoConfig /\ config.Secret # ""
                       THEN generateSignature(payloadBytes, config.Secret)
                       ELSE NoSignature]

\* worker + processDelivery up to req.Post: receive, count the attempt,
\* serialize (a serialization error ends the delivery as failed), build the
\* request and send it
WorkerReceive(w) ==
    /\ Alive
    /\ workerState[w] = "running"
    /\ holding[w] = 0
    /\ deliveryQueue # <<>>
    /\ LET d == Head(deliveryQueue)
           delivery == [deliveries[d] EXCEPT !.Attempts = @ + 1]
       IN  /\ deliveryQueue' = Receive(deliveryQueue)
           /\ IF MarshalFails(delivery.Payload)
              THEN /\ deliveries' = [deliveries EXCEPT ![d] =
                                        [delivery EXCEPT !.Status = StatusFailed]]
                   /\ stats' = incrementStat(stats, "total_failed")
                   /\ UNCHANGED <<holding, request>>
              ELSE /\ deliveries' = [deliveries EXCEPT ![d] = delivery]
                   /\ holding' = [holding EXCEPT ![w] = d]
                   /\ request' = [request EXCEPT ![w] = BuildRequest(delivery)]
                   /\ UNCHANGED stats
    /\ UNCHANGED <<configs, globalConfig, producedBy, retryPending, warnings,
                   configErr>>
    /\ UNCHANGED <<sending, svars, cvars, shutvars>>

\* mutants of the retry condition: one attempt too many; never giving up
ShouldRetryInclusive(delivery) == delivery.Attempts <= delivery.MaxRetries
ShouldRetryAlways(delivery) == TRUE

\* handleDeliveryFailure: the retry condition
ShouldRetry(delivery) == delivery.Attempts < delivery.MaxRetries

\* handleDeliveryFailure: time.Duration(delivery.Attempts) * 5 * time.Second,
\* in seconds
BackoffUnit == 5
backoffDelay(delivery) == delivery.Attempts * BackoffUnit

\* processDelivery after req.Post returned, with handleDeliveryFailure
\* handleDeliveryFailure without the assignment of StatusExpired: the last
\* failed attempt is counted and the Delivery is left pending
WorkerResponseKeepsPending(w, code) ==
    /\ Alive
    /\ holding[w] # 0
    /\ LET d == holding[w]
           delivery == deliveries[d]
       IN  IF code # NetError /\ IsSuccessCode(code)
           THEN /\ deliveries' = [deliveries EXCEPT ![d].Status = StatusSuccess]
                /\ stats' = incrementStat(stats, "total_success")
                /\ UNCHANGED retryPending
           ELSE IF ShouldRetry(delivery)
                THEN /\ retryPending' = retryPending \cup {d}
                     /\ deliveries' = [deliveries EXCEPT ![d].NextRetry =
                                           backoffDelay(delivery)]
                     /\ UNCHANGED stats
                ELSE /\ stats' = incrementStat(stats, "total_failed")
                     /\ UNCHANGED <<deliveries, retryPending>>
    /\ holding' = [holding EXCEPT ![w] = 0]
    /\ request' = [request EXCEPT ![w] = NoRequest]
    /\ UNCHANGED <<configs, globalConfig, deliveryQueue, producedBy, warnings,
                   configErr>>
    /\ UNCHANGED <<sending, svars, cvars, shutvars>>

WorkerResponse(w, code) ==
    /\ Alive
    /\ holding[w] # 0
    /\ LET d == holding[w]
           delivery == deliveries[d]
       IN  IF code # NetError /\ IsSuccessCode(code)
           THEN /\ deliveries' = [deliveries EXCEPT ![d].Status = StatusSuccess]
                /\ stats' = incrementStat(stats, "total_success")
                /\ UNCHANGED retryPending
           ELSE IF ShouldRetry(delivery)
                THEN /\ retryPending' = retryPending \cup {d}
                     /\ deliveries' = [deliveries EXCEPT ![d].NextRetry =
                                           backoffDelay(delivery)]
                     /\ UNCHANGED stats
                ELSE /\ deliveries' = [deliveries EXCEPT ![d].Status = StatusExpired]
                     /\ stats' = incrementStat(stats, "total_failed")
                     /\ UNCHANGED retryPending
    /\ holding' = [holding EXCEPT ![w] = 0]
    /\ request' = [request EXCEPT ![w] = NoRequest]
    /\ UNCHANGED <<configs, globalConfig, deliveryQueue, producedBy, warnings,
                   configErr>>
    /\ UNCHANGED <<sending, svars, cvars, shutvars>>

\* mutant of the retry goroutine: on a full queue the retry takes the place
\* of the delivery at the head
RetryFireDisplaces(d) ==
    /\ Alive
    /\ d \in retryPending
    /\ retryPending' = retryPending \ {d}
    /\ ~queueClosed
    /\ deliveryQueue' = IF Len(deliveryQueue) < QueueCap
                        THEN Append(deliveryQueue, d)
                        ELSE Append(Tail(deliveryQueue), d)
    /\ stats' = incrementStat(stats, "total_retries")
    /\ UNCHANGED <<configs, globalConfig, deliveries, producedBy, holding, request,
                   warnings, configErr, workerState, stop, queueClosed, fault>>
    /\ UNCHANGED <<sending, svars, cvars>>

\* mutant of the retry goroutine: the delivery starts over
RetryFireStartsOver(d) ==
    /\ Alive
    /\ d \in retryPending
    /\ retryPending' = retryPending \ {d}
    /\ ~queueClosed
    /\ Len(deliveryQueue) < QueueCap
    /\ deliveryQueue' = Append(deliveryQueue, d)
    /\ deliveries' = [deliveries EXCEPT ![d].Attempts = 0]
    /\ stats' = incrementStat(stats, "total_retries")
    /\ UNCHANGED <<configs, globalConfig, producedBy, holding, request, warnings,
                   configErr, workerState, stop, queueClosed, fault>>
    /\ UNCHANGED <<sending, svars, cvars>>

\* the retry goroutine after time.Sleep(backoffDelay): non-blocking resubmission;
\* on a closed queue the send case of the select panics
RetryFire(d) ==
    /\ Alive
    /\ d \in retryPending
    /\ retryPending' = retryPending \ {d}
    /\ IF queueClosed
       THEN /\ fault' = PanicClosedChannel
            /\ UNCHANGED <<deliveryQueue, stats, warnings>>
       ELSE /\ UNCHANGED fault
            /\ IF Len(deliveryQueue) < QueueCap
               THEN /\ deliveryQueue' = Append(deliveryQueue, d)
                    /\ stats' = incrementStat(stats, "total_retries")
                    /\ UNCHANGED warnings
               ELSE /\ warnings.RetryDropped < MaxDrops
                    /\ warnings' = [warnings EXCEPT !.RetryDropped = @ + 1]
                    /\ UNCHANGED <<deliveryQueue, stats>>
    /\ UNCHANGED <<configs, globalConfig, deliveries, producedBy, holding, request,
                   configErr, workerState, stop, queueClosed>>
    /\ UNCHANGED <<sending, svars, cvars>>

WNext ==
    \/ \E s \in WSessions, c \in ConfigInputs : SetConfig(s, c)
    \/ \E s \in WSessions : DeleteConfig(s)
    \/ \E c \in ConfigInputs : SetGlobalConfig(c)
    \/ \E s \in WSessions, e \in EventTypes, x \in EventData : Send(s, e, x)
    \/ \E w \in WorkerIds : WorkerReceive(w)
    \/ \E w \in WorkerIds, code \in ResponseCodes : WorkerResponse(w, code)
    \/ \E d \in 1..MaxDeliveries : RetryFire(d)

\* the delivery engine next to a session manager that is left alone
WebhookInit ==
    /\ WInit
    /\ NewSessionManager([id \in SessionIds |-> NoRow], "bun")
    /\ ClientInit

SpecWebhook == WebhookInit /\ [][WNext]_vars

(***************************************************************************)
(* The configuration store alone                                           *)
(***************************************************************************)
\* URLs a caller may write: http://e, https://e, "https://" (no host),
\* "http://" (no host), ftp://ab, HTTP://e and the empty string
WriteURLs ==
    {EndpointURL,
     HttpsPrefix \o <<"e">>,
     HttpsPrefix,
     HttpPrefix,
     <<"f", "t", "p", ":", "/", "/", "a", "b">>,
     <<"H", "T", "T", "P", ":", "/", "/", "e">>,
     <<>>}

\* configurations a caller may write: any of the URLs, zero and non-zero
\* timeout and retry delay, zero, positive and negative retry count
ConfigWrites ==
    {[URL |-> u, Enabled |-> TRUE, Events |-> <<EventAll>>, Secret |-> "",
      Timeout |-> t, MaxRetries |-> r, RetryDelay |-> y] :
        u \in WriteURLs, t \in {0, DefaultTimeout}, r \in {-1, 0, 2},
        y \in {0, DefaultRetryDelay}}

ConfigNext ==
    \/ \E s \in WSessions, c \in ConfigWrites : SetConfig(s, c)
    \/ \E s \in WSessions : DeleteConfig(s)
    \/ \E c \in ConfigWrites : SetGlobalConfig(c)

SpecConfig == WebhookInit /\ [][ConfigNext]_vars

(***************************************************************************)
(* Shutdown                                                                *)
(***************************************************************************)
\* Stop is called (once)
StopBegin ==
    /\ Alive
    /\ stop.pc = "idle"
    /\ stop' = [stop EXCEPT !.pc = "signal"]
    /\ UNCHANGED <<configs, globalConfig, deliveryQueue, deliveries, producedBy,
                   holding, request, retryPending, stats, warnings, configErr,
                   workerState, queueClosed, fault>>
    /\ UNCHANGED <<sending, svars, cvars>>

\* wm.stopChan <- true meets case <-wm.stopChan of a worker that is in its
\* select; after wm.workers signals Stop goes on to workerWG.Wait()
StopSignal(w) ==
    /\ Alive
    /\ stop.pc = "signal"
    /\ workerState[w] = "running"
    /\ holding[w] = 0
    /\ workerState' = [workerState EXCEPT ![w] = "stopped"]
    /\ stop' = [pc |-> IF stop.sent + 1 = Workers THEN "wait" ELSE "signal",
                sent |-> stop.sent + 1]
    /\ UNCHANGED <<configs, globalConfig, deliveryQueue, deliveries, producedBy,
                   holding, request, retryPending, stats, warnings, configErr,
                   queueClosed, fault>>
    /\ UNCHANGED <<sending, svars, cvars>>

\* the worker returns: defer wm.workerWG.Done()
WorkerExit(w) ==
    /\ Alive
    /\ workerState[w] = "stopped"
    /\ workerState' = [workerState EXCEPT ![w] = "exited"]
    /\ UNCHANGED <<configs, globalConfig, deliveryQueue, deliveries, producedBy,
                   holding, request, retryPending, stats, warnings, configErr,
                   stop, queueClosed, fault>>
    /\ UNCHANGED <<sending, svars, cvars>>

\* mutant of the wait: Stop does not wait for the workers
WaitSkipped == TRUE

\* wm.workerWG.Wait() returns
WaitDone == \A w \in WorkerIds : workerState[w] = "exited"

\* Stop after the wait: close(wm.deliveryQueue), close(wm.stopChan), return
StopClose ==
    /\ Alive
    /\ stop.pc = "wait"
    /\ WaitDone
    /\ queueClosed' = TRUE
    /\ stop' = [stop EXCEPT !.pc = "done"]
    /\ UNCHANGED <<configs, globalConfig, deliveryQueue, deliveries, producedBy,
                   holding, request, retryPending, stats, warnings, configErr,
                   workerState, fault>>
    /\ UNCHANGED <<sending, svars, cvars>>

\* the configuration in force while the engine is shut down
ShutdownConfigs == {c \in ConfigInputs : c.MaxRetries > 0}

ShutdownNext ==
    \/ \E s \in WSessions, c \in ShutdownConfigs : SetConfig(s, c)
    \/ \E s \in WSessions, e \in EventTypes, x \in EventData : Send(s, e, x)
    \/ \E w \in WorkerIds : WorkerReceive(w)
    \/ \E w \in WorkerIds, code \in ResponseCodes : WorkerResponse(w, code)
    \/ \E d \in 1..MaxDeliveries : RetryFire(d)
    \/ StopBegin
    \/ \E w \in WorkerIds : StopSignal(w)
    \/ \E w \in WorkerIds : WorkerExit(w)
    \/ StopClose

SpecShutdown == WebhookInit /\ [][ShutdownNext]_vars

\* a request in flight returns (the HTTP client has a timeout); a worker in its
\* select takes the stop signal (select chooses among the ready cases at
\* random); a stopped worker returns; Stop runs on
ShutdownFairness ==
    /\ \A w \in WorkerIds :
          /\ WF_vars(\E code \in ResponseCodes : WorkerResponse(w, code))
          /\ SF_vars(StopSignal(w))
          /\ WF_vars(WorkerExit(w))
    /\ WF_vars(StopClose)

SpecShutdownFair == SpecShutdown /\ ShutdownFairness

(***************************************************************************)
(* Submission: configurations of every kind, two event types, and Stop     *)
(***************************************************************************)
SendEvents == {"Message", "Receipt"}

\* enabled configurations with an empty list, the wildcard, and a list naming
\* one event type, and a disabled one with the wildcard
SendConfigs ==
    {[URL |-> EndpointURL, Enabled |-> en, Events |-> ev, Secret |-> "",
      Timeout |-> DefaultTimeout, MaxRetries |-> DefaultMaxRetries,
      RetryDelay |-> DefaultRetryDelay] :
        en \in BOOLEAN, ev \in {<<>>, <<EventAll>>, <<"Message">>}}
       \ {[URL |-> EndpointURL, Enabled |-> FALSE, Events |-> ev, Secret |-> "",
           Timeout |-> DefaultTimeout, MaxRetries |-> DefaultMaxRetries,
           RetryDelay |-> DefaultRetryDelay] : ev \in {<<>>, <<"Message">>}}

SendNext ==
    \/ \E s \in WSessions, c \in SendConfigs : SetConfig(s, c)
    \/ \E s \in WSessions : DeleteConfig(s)
    \/ \E c \in SendConfigs : SetGlobalConfig(c)
    \/ \E s \in WSessions, e \in SendEvents : Send(s, e, "data")
    \/ \E w \in WorkerIds : WorkerReceive(w)
    \/ \E w \in WorkerIds : WorkerResponse(w, 200)
    \/ StopBegin
    \/ \E w \in WorkerIds : StopSignal(w)
    \/ \E w \in WorkerIds : WorkerExit(w)
    \/ StopClose

SpecSend == WebhookInit /\ [][SendNext]_vars

(***************************************************************************)
(* Retries: one configuration with three attempts and a retry delay that   *)
(* is not the default, and enough deliveries to fill the queue while one   *)
(* of them waits for its retry                                             *)
(***************************************************************************)
RetryDeliveries == QueueCap + 1

RetryConfigs ==
    {[URL |-> EndpointURL, Enabled |-> TRUE, Events |-> <<EventAll>>, Secret |-> "",
      Timeout |-> DefaultTimeout, MaxRetries |-> DefaultMaxRetries, RetryDelay |-> 10]}

RetryNext ==
    \/ \E s \in WSessions, c \in RetryConfigs : SetConfig(s, c)
    \/ \E s \in WSessions, e \in EventTypes : SendUpTo(RetryDeliveries, s, e, "data")
    \/ \E w \in WorkerIds : WorkerReceive(w)
    \/ \E w \in WorkerIds, code \in {200, 500} : WorkerResponse(w, code)
    \/ \E d \in 1..RetryDeliveries : RetryFire(d)

SpecRetry == WebhookInit /\ [][RetryNext]_vars

\* The scheduling the engine relies on while Stop is not called: each worker
\* goroutine loops on the queue, each HTTP attempt returns within the
\* request timeout, and each retry goroutine wakes up after its sleep
RetryFairness ==
    /\ \A w \in WorkerIds : WF_vars(WorkerReceive(w))
    /\ \A w \in WorkerIds : WF_vars(\E code \in {200, 500} : WorkerResponse(w, code))
    /\ \A d \in 1..RetryDeliveries : WF_vars(RetryFire(d))

SpecRetryFair == SpecRetry /\ RetryFairness

(***************************************************************************)
(* Statistics: queueDelivery in its two steps, the channel send and the    *)
(* count, next to the workers                                              *)
(***************************************************************************)
\* Manager.Send for a session while there is no global configuration, up to
\* the select of queueDelivery: the Delivery is in the queue (or dropped),
\* total_sent is not yet incremented
SendEnqueue(sessionID, eventType, eventData) ==
    LET m == SendResult(sessionID, eventType, eventData)
    IN  /\ Alive
        /\ ~queueClosed
        /\ globalConfig = NoConfig
        /\ Len(m.ds) <= MaxDeliveries
        /\ m.warn.QueueFull <= MaxDrops
        /\ deliveryQueue' = m.q
        /\ deliveries' = m.ds
        /\ producedBy' = m.prod
        /\ warnings' = m.warn
        /\ sending' = sending \cup ((Len(deliveries) + 1)..Len(m.ds))
        /\ UNCHANGED <<configs, globalConfig, holding, request, retryPending, stats,
                       configErr, shutvars>>
        /\ UNCHANGED <<svars, cvars>>

\* queueDelivery after the channel send: wm.incrementStat("total_sent")
SendCount(d) ==
    /\ Alive
    /\ d \in sending
    /\ sending' = sending \ {d}
    /\ stats' = incrementStat(stats, "total_sent")
    /\ UNCHANGED <<configs, globalConfig, deliveryQueue, deliveries, producedBy,
                   holding, request, retryPending, warnings, configErr, shutvars>>
    /\ UNCHANGED <<svars, cvars>>

\* Manager.GetStats: the counters and len(wm.deliveryQueue)
GetStats ==
    [TotalSent |-> stats.TotalSent, TotalSuccess |-> stats.TotalSuccess,
     TotalFailed |-> stats.TotalFailed, TotalRetries |-> stats.TotalRetries,
     QueueSize |-> Len(deliveryQueue)]

StatsNext ==
    \/ \E s \in WSessions, c \in ConfigInputs : SetConfig(s, c)
    \/ \E s \in WSessions, e \in EventTypes, x \in EventData : SendEnqueue(s, e, x)
    \/ \E d \in 1..MaxDeliveries : SendCount(d)
    \/ \E w \in WorkerIds : WorkerReceive(w)
    \/ \E w \in WorkerIds, code \in {200, 500} : WorkerResponse(w, code)
    \/ \E d \in 1..MaxDeliveries : RetryFire(d)

SpecStats == WebhookInit /\ [][StatsNext]_vars

(***************************************************************************)
(* Delivery engine: where a Delivery is                                    *)
(***************************************************************************)
DeliveryIds == 1..Len(deliveries)
InQueue(d) == \E i \in 1..Len(deliveryQueue) : deliveryQueue[i] = d
InFlight(d) == \E w \in WorkerIds : holding[w] = d
Max(a, b) == IF a >= b THEN a ELSE b

(***************************************************************************)
(* C4. The attempt counter of a delivery only increases, by one per        *)
(* processing, never exceeds maxRetries + 1, and an expired delivery is    *)
(* never put back into the queue.                                          *)
(***************************************************************************)
AttemptsStep(bound(_)) ==
    \A d \in 1..Len(deliveries') :
        /\ deliveries'[d].Attempts <= bound(deliveries'[d].MaxRetries)
        /\ d \in DeliveryIds =>
              /\ deliveries'[d].Attempts \in
                    {deliveries[d].Attempts, deliveries[d].Attempts + 1}
              /\ (deliveries'[d].Attempts = deliveries[d].Attempts + 1)
                    <=> (InQueue(d) /\ ~InFlight(d)
                         /\ (~InQueue(d)' \/ InFlight(d)'))
              /\ deliveries[d].Status = StatusExpired =>
                    /\ deliveries'[d].Status = StatusExpired
                    /\ ~InQueue(d)' /\ ~InFlight(d)' /\ d \notin retryPending'

ClaimedBound(maxRetries) == maxRetries + 1
CodeBound(maxRetries) == Max(maxRetries, 1)

FailedMTimes(d) ==
    /\ deliveries[d].MaxRetries >= 1
    /\ deliveries[d].Attempts = deliveries[d].MaxRetries
    /\ ~MarshalFails(deliveries[d].Payload)
    /\ ~InFlight(d)
    /\ deliveries[d].Status # StatusSuccess

WithStatus(statuses) == {d \in DeliveryIds : deliveries[d].Status \in statuses}

\* C5 as stated: after M failures the delivery is still pending, waiting for
\* attempt M + 1, and nothing was counted as failed for it
C5_Original ==
    \A d \in DeliveryIds :
        FailedMTimes(d) =>
            /\ deliveries[d].Status = StatusPending
            /\ stats.TotalFailed = Cardinality(WithStatus({StatusFailed}))

\* C5 amended: after M failures the delivery is expired with M attempts, there
\* is no attempt M + 1, and it is counted once as failed and never as success
C5_ExpiredAfterM ==
    /\ \A d \in DeliveryIds :
          /\ FailedMTimes(d) =>
                /\ deliveries[d].Status = StatusExpired
                /\ ~InQueue(d) /\ d \notin retryPending
          /\ deliveries[d].MaxRetries >= 1 =>
                deliveries[d].Attempts <= deliveries[d].MaxRetries
    /\ stats.TotalSuccess = Cardinality(WithStatus({StatusSuccess}))
    /\ stats.TotalFailed = Cardinality(WithStatus({StatusExpired, StatusFailed}))

C5_Witness ==
    \E d \in DeliveryIds :
        /\ deliveries[d].MaxRetries = 2
        /\ deliveries[d].Attempts = 2
        /\ deliveries[d].Status = StatusExpired
        /\ stats.TotalFailed = 1
        /\ stats.TotalSuccess = 0

(***************************************************************************)
(* C6. With a queue of capacity N and no worker dequeuing, N + 1           *)
(* submissions leave exactly N items queued and exactly one dropped, and   *)
(* the drop increments the rejected/failed counter.                        *)
(***************************************************************************)
NoWorkerDequeued ==
    /\ \A w \in WorkerIds : holding[w] = 0
    /\ \A d \in DeliveryIds : deliveries[d].Attempts = 0

C6_Original ==
    (NoWorkerDequeued /\ stats.TotalSent + warnings.QueueFull = QueueCap + 1) =>
        /\ Len(deliveryQueue) = QueueCap
        /\ warnings.QueueFull = 1
        /\ stats.TotalFailed = 1

(***************************************************************************)
(* C9. Every attempt of a delivery produced by a configuration with a      *)
(* non-empty secret carries X-Webhook-Signature = "sha256=" +              *)
(* hex(HMAC-SHA256(that secret, body)), over the body that is transmitted. *)
(***************************************************************************)
C9_Original ==
    \A w \in WorkerIds :
        (holding[w] # 0 /\ producedBy[holding[w]].Secret # "") =>
            request[w].Signature =
                generateSignature(request[w].Body, producedBy[holding[w]].Secret)

(***************************************************************************)
(* C10. A delivery is held by at most one worker at a time, retried        *)
(* deliveries included, and is never in the queue while it is processed.   *)
(***************************************************************************)
C10_SingleHolder ==
    /\ \A w1, w2 \in WorkerIds :
          (w1 # w2 /\ holding[w1] # 0) => holding[w1] # holding[w2]
    /\ \A w \in WorkerIds : holding[w] # 0 => ~InQueue(holding[w])

C10_Witness ==
    \E w1, w2 \in WorkerIds :
        /\ w1 # w2
        /\ holding[w1] # 0 /\ holding[w2] # 0
        /\ deliveries[holding[w1]].Attempts >= 2

(***************************************************************************)
(* C11. Stop terminates; when it goes on to the wait every worker has      *)
(* taken a stop signal; it closes the queue and returns only after every   *)
(* worker has finished its delivery and exited; and no worker starts on a  *)
(* delivery after Stop has returned.                                       *)
(***************************************************************************)
StopOrdered ==
    /\ stop.pc \in {"wait", "done"}
          => /\ stop.sent = Workers
             /\ \A w \in WorkerIds : workerState[w] # "running" /\ holding[w] = 0
    /\ (stop.pc = "done" \/ queueClosed)
          => \A w \in WorkerIds : workerState[w] = "exited" /\ holding[w] = 0

NoProcessingAfterStop ==
    stop.pc = "done"
       => /\ holding' = holding
          /\ \A d \in DeliveryIds : deliveries'[d].Attempts = deliveries[d].Attempts

C11_StopTerminates ==
    /\ []StopOrdered
    /\ [][NoProcessingAfterStop]_vars
    /\ (stop.pc = "signal" ~> stop.pc = "done")

\* Stop has returned after the workers processed a delivery
C11_Witness ==
    /\ stop.pc = "done"
    /\ queueClosed
    /\ \E d \in DeliveryIds : deliveries[d].Attempts >= 1

(***************************************************************************)
(* C12. A retry whose delay elapses after Stop closed the queue is lost    *)
(* without a fault: the process does not panic on the closed queue.        *)
(***************************************************************************)
\* the step in which the retry goroutine of d wakes up
RetryWakes(d) == d \in retryPending /\ d \notin retryPending'

C12_Original ==
    [][\A d \in DeliveryIds :
          (queueClosed /\ RetryWakes(d))
             => /\ fault' = "none"
                /\ deliveryQueue' = deliveryQueue
                /\ deliveries' = deliveries]_vars

(***************************************************************************)
(* C19. A configuration write, per session or global, whose URL does not   *)
(* start with http:// or https:// returns the validation error and leaves  *)
(* the store as it was; every stored configuration has such a URL.         *)
(***************************************************************************)
StartsWith(url, prefix) ==
    Len(url) >= Len(prefix) /\ SubSeq(url, 1, Len(prefix)) = prefix

HasHttpScheme(url) == StartsWith(url, HttpPrefix) \/ StartsWith(url, HttpsPrefix)

StoredConfigs ==
    ({configs[s] : s \in WSessions} \cup {globalConfig}) \ {NoConfig}

\* a step that puts a configuration into the store
StoreWritten ==
    \/ \E s \in WSessions : configs'[s] # configs[s] /\ configs'[s] # NoConfig
    \/ globalConfig' # globalConfig

C19_InvalidURLRefused ==
    /\ [](\A c \in StoredConfigs : HasHttpScheme(c.URL))
    /\ [][/\ StoreWritten => configErr' = "none"
          /\ \A c \in ConfigWrites :
                (/\ ~HasHttpScheme(c.URL)
                 /\ (SetGlobalConfig(c) \/ \E s \in WSessions : SetConfig(s, c)))
                   => /\ configErr' = ErrInvalidURL
                      /\ configs' = configs
                      /\ globalConfig' = globalConfig]_vars

\* a refused write that left stored configurations in place
C19_Witness ==
    /\ configErr = ErrInvalidURL
    /\ globalConfig # NoConfig
    /\ \E s \in WSessions : configs[s] # NoConfig

(***************************************************************************)
(* C20. Every stored configuration, per session or global, has a positive  *)
(* timeout, a positive retry count and a positive retry delay.             *)
(***************************************************************************)
C20_Original ==
    \A c \in StoredConfigs :
        c.Timeout > 0 /\ c.MaxRetries > 0 /\ c.RetryDelay > 0

(***************************************************************************)
(* C21. Send(sessionID, eventType) enqueues a delivery for a scope (the    *)
(* session, the global one) exactly when a configuration exists for that   *)
(* scope, it is enabled and its event list holds eventType or the          *)
(* wildcard; when both scopes match, two separate deliveries are enqueued. *)
(* As the code has it: a matching scope gets its delivery while the queue  *)
(* has room, the session's scope first; a matching scope that finds the    *)
(* queue full gets a "queue full" warning and no delivery; a scope that    *)
(* does not match gets neither; once Stop has closed the queue, a Send     *)
(* with a matching scope enqueues nothing and panics.                      *)
(***************************************************************************)
\* the configuration subscribes to the event type
Subscribes(config, eventType) ==
    /\ config # NoConfig
    /\ config.Enabled
    /\ \E i \in 1..Len(config.Events) :
          config.Events[i] = eventType \/ config.Events[i] = EventAll

\* the deliveries a step created
Created == (Len(deliveries) + 1)..Len(deliveries')

\* the step created a delivery for the scope and put it into the queue
EnqueuedFor(scope, eventType) ==
    \E d \in Created :
        /\ deliveries'[d].SessionID = scope
        /\ deliveries'[d].Payload.Type = eventType
        /\ producedBy'[d].Scope = scope
        /\ \E i \in 1..Len(deliveryQueue') : deliveryQueue'[i] = d

Sends(sessionID, eventType) == \E x \in EventData : Send(sessionID, eventType, x)

C21_Original ==
    [][\A s \in WSessions, e \in SendEvents :
          Sends(s, e)
             => /\ EnqueuedFor(s, e) <=> Subscribes(configs[s], e)
                /\ EnqueuedFor(GlobalScope, e) <=> Subscribes(globalConfig, e)
                /\ (Subscribes(configs[s], e) /\ Subscribes(globalConfig, e))
                      => Cardinality(Created) = 2]_vars

C21_SendPerScope ==
    [][\A s \in WSessions, e \in SendEvents :
          Sends(s, e)
             => LET room == IF queueClosed THEN 0 ELSE QueueCap - Len(deliveryQueue)
                    forSession == Subscribes(configs[s], e)
                    forGlobal == Subscribes(globalConfig, e)
                    left == IF forSession /\ room > 0 THEN room - 1 ELSE room
                    dropped == IF queueClosed THEN 0
                               ELSE (IF forSession /\ room <= 0 THEN 1 ELSE 0)
                                       + (IF forGlobal /\ left <= 0 THEN 1 ELSE 0)
                IN  /\ (queueClosed /\ (forSession \/ forGlobal))
                          <=> fault' = PanicClosedChannel
                    /\ EnqueuedFor(s, e) <=> (forSession /\ room > 0)
                    /\ EnqueuedFor(GlobalScope, e) <=> (forGlobal /\ left > 0)
                    /\ Cardinality(Created) =
                          (IF forSession /\ room > 0 THEN 1 ELSE 0)
                             + (IF forGlobal /\ left > 0 THEN 1 ELSE 0)
                    /\ warnings'.QueueFull = warnings.QueueFull + dropped
                    /\ Len(deliveryQueue') = Len(deliveryQueue) + Cardinality(Created)]_vars

\* one Send enqueued a delivery for the session and one for the global scope
C21_Witness ==
    /\ Len(deliveries) = 2
    /\ deliveryQueue = <<1, 2>>
    /\ producedBy[1].Scope = "s1"
    /\ producedBy[2].Scope = GlobalScope
    /\ deliveries[1].Payload.Type = "Message"
    /\ deliveries[2].Payload.Type = "Message"
    /\ configs["s1"] # NoConfig
    /\ configs["s1"].Events = <<"Message">>
    /\ globalConfig # NoConfig
    /\ globalConfig.Events = <<EventAll>>

(***************************************************************************)
(* C30. A retry puts the same Delivery back into the queue: same id,       *)
(* session, URL and payload, attempt counter as it was; no step lowers an  *)
(* attempt counter, a retry creates no Delivery, and a Delivery whose      *)
(* status is success is never in the queue, held by a worker or waiting    *)
(* for a retry again.                                                      *)
(***************************************************************************)
\* the step put d at the end of the queue
Requeued(d) == deliveryQueue' = Append(deliveryQueue, d)

RetryKeepsItem ==
    \A d \in DeliveryIds :
        /\ RetryWakes(d)
              => /\ deliveries' = deliveries
                 /\ Requeued(d) \/ deliveryQueue' = deliveryQueue
                 /\ Requeued(d) <=> stats'.TotalRetries = stats.TotalRetries + 1
        /\ deliveries'[d].Attempts >= deliveries[d].Attempts
        /\ deliveries'[d].SessionID = deliveries[d].SessionID
        /\ deliveries'[d].URL = deliveries[d].URL
        /\ deliveries'[d].Payload = deliveries[d].Payload
        /\ deliveries[d].Status = StatusSuccess => deliveries'[d] = deliveries[d]

SuccessIsTerminal ==
    \A d \in DeliveryIds :
        deliveries[d].Status = StatusSuccess
           => /\ ~InQueue(d)
              /\ ~InFlight(d)
              /\ d \notin retryPending

C30_RetrySameItem ==
    /\ [][RetryKeepsItem]_vars
    /\ []SuccessIsTerminal

\* a Delivery is back in the queue after a failed attempt, its counter kept,
\* next to one that ended in success
C30_Witness ==
    \E d \in DeliveryIds, other \in DeliveryIds :
        /\ deliveries[d].Attempts = 1
        /\ deliveries[d].Status = StatusPending
        /\ InQueue(d)
        /\ stats.TotalRetries = 1
        /\ deliveries[other].Status = StatusSuccess

(***************************************************************************)
(* Bounds of the session orchestrator model                                *)
(***************************************************************************)
\* number of whatsmeow clients constructed over a behaviour
MaxClients == 2
\* number of codes a QR channel hands out before it times out
MaxCodes == 1
\* number of undelivered items a QR channel holds
ChanCap == 1

(***************************************************************************)
(* Session repository                                                      *)
(***************************************************************************)
\* UpdateStatus: writes the status column only; no row, no change
UpdateStatus(table, id, status) ==
    IF table[id] = NoRow THEN table
    ELSE [table EXCEPT ![id].Status = status]

\* UpdateQRCode
UpdateQRCode(table, id, qrCode) ==
    IF table[id] = NoRow THEN table
    ELSE [table EXCEPT ![id].QRCode = qrCode]

\* SetConnected: status, phone and device identifier as given
SetConnected(table, id, phone, deviceJid) ==
    IF table[id] = NoRow THEN table
    ELSE [table EXCEPT ![id].Status = StatusConnected,
                       ![id].Phone = phone,
                       ![id].DeviceJid = deviceJid]

\* SetDisconnected of internal/store/repositories: UPDATE sessions SET status
SetDisconnectedSql(table, id) ==
    [table EXCEPT ![id].Status = StatusDisconnected]

\* SetDisconnected of internal/repository: status, qrCode, phone, deviceJid
SetDisconnectedBun(table, id) ==
    [table EXCEPT ![id].Status = StatusDisconnected,
                  ![id].QRCode = EmptyString,
                  ![id].Phone = "",
                  ![id].DeviceJid = EmptyString]

SetDisconnected(table, id) ==
    IF table[id] = NoRow THEN table
    ELSE IF sessionRepo = "sql" THEN SetDisconnectedSql(table, id)
    ELSE SetDisconnectedBun(table, id)

(***************************************************************************)
(* Session orchestrator: initial state                                     *)
(***************************************************************************)
\* what the table can hold for a session when the process starts: nothing, a
\* session that was never paired, or a session that was paired and connected
InitialRows(id) == {NoRow, NewRow, PairedRow(id)}

\* the tables with rows for the sessions in ids only
InitialTables(ids) ==
    {table \in [SessionIds -> UNION {InitialRows(id) : id \in SessionIds}] :
        \A id \in SessionIds :
            table[id] \in (IF id \in ids THEN InitialRows(id) ELSE {NoRow})}

\* the session the requests of Spec name
Requested == {"s1"}

Init ==
    /\ WInit
    /\ ClientInit
    /\ \E table \in InitialTables(Requested), repo \in {"sql", "bun"} :
          NewSessionManager(table, repo)

\* process start with rows for every session
StartupInit ==
    /\ WInit
    /\ ClientInit
    /\ \E table \in InitialTables(SessionIds), repo \in {"sql", "bun"} :
          NewSessionManager(table, repo)

(***************************************************************************)
(* Registry                                                                *)
(***************************************************************************)
\* whatsmeow.NewClient(deviceStore, ...)
NewClient(h, storeID, isConnected) ==
    [h |-> h, connected |-> isConnected, storeID |-> storeID]

\* client.IsLoggedIn(): connected and authenticated
IsLoggedIn(client) == client.connected /\ client.storeID # NilJID

\* client.Disconnect() when client.IsConnected()
Disconnected(client) == [client EXCEPT !.connected = FALSE]

\* mutant of CreateSession: no look-up before the registration
CreateSessionNoCheck(id) ==
    /\ nextClient < MaxClients
    /\ whatsmeowClients' = [whatsmeowClients EXCEPT
                               ![id] = NewClient(nextClient + 1, NilJID, FALSE)]
    /\ nextClient' = nextClient + 1
    /\ lastCreate' = [id |-> id, client |-> nextClient + 1, err |-> "none"]

\* CreateSession, under sm.mu: an id that has an entry is refused
CreateSession(id) ==
    IF whatsmeowClients[id] # NoClient
    THEN /\ lastCreate' = [id |-> id, client |-> 0, err |-> ErrAlreadyExists]
         /\ UNCHANGED <<whatsmeowClients, nextClient>>
    ELSE /\ nextClient < MaxClients
         /\ whatsmeowClients' = [whatsmeowClients EXCEPT
                                    ![id] = NewClient(nextClient + 1, NilJID, FALSE)]
         /\ nextClient' = nextClient + 1
         /\ lastCreate' = [id |-> id, client |-> nextClient + 1, err |-> "none"]

\* a caller of the manager's CreateSession
CallCreateSession(id) ==
    /\ CreateSession(id)
    /\ UNCHANGED <<sessionRepo, sessions, qrFlow, reconnect, connecting, qrRequest, superseded, startup>>
    /\ UNCHANGED <<lastCall, wvars, cvars>>

\* handler AddSession: repo.Create under a fresh id, then CreateSession
AddSession(id) ==
    /\ sessions[id] = NoRow
    /\ whatsmeowClients[id] = NoClient
    /\ sessions' = [sessions EXCEPT ![id] = NewRow]
    /\ CreateSession(id)
    /\ UNCHANGED <<sessionRepo, qrFlow, reconnect, connecting, qrRequest, superseded, startup>>
    /\ UNCHANGED <<lastCall, wvars, cvars>>

\* mutant of DeleteSession: the entry stays in the registry
DeleteSessionKeepsEntry(registry, id) ==
    IF registry[id] = NoClient
    THEN [registry |-> registry, err |-> ErrNotFound, calls |-> <<>>]
    ELSE [registry |-> [registry EXCEPT ![id] = Disconnected(@)], err |-> "none",
          calls |-> IF registry[id].connected THEN <<"Disconnect">> ELSE <<>>]

\* DeleteSession, under sm.mu: what it returns, the registry it leaves and the
\* client methods it calls
DeleteSession(registry, id) ==
    IF registry[id] = NoClient
    THEN [registry |-> registry, err |-> ErrNotFound, calls |-> <<>>]
    ELSE [registry |-> [registry EXCEPT ![id] = NoClient], err |-> "none",
          calls |-> IF registry[id].connected THEN <<"Disconnect">> ELSE <<>>]

\* a caller of the manager's DeleteSession
CallDeleteSession(id) ==
    LET r == DeleteSession(whatsmeowClients, id)
    IN  /\ whatsmeowClients' = r.registry
        /\ lastCall' = [op |-> "DeleteSession", id |-> id, err |-> r.err,
                        calls |-> r.calls]
        /\ UNCHANGED <<sessionRepo, nextClient, sessions, qrFlow, reconnect,
                       connecting, qrRequest, superseded, startup, lastCreate>>
        /\ UNCHANGED <<wvars, cvars>>

\* mutant of the handler: the manager's error ends the request
HandleDeleteSessionAborting(id) ==
    LET r == DeleteSession(whatsmeowClients, id)
    IN  /\ whatsmeowClients' = r.registry
        /\ sessions' = IF r.err # "none" THEN sessions
                       ELSE [sessions EXCEPT ![id] = NoRow]
        /\ lastCall' = [op |-> "DELETE", id |-> id,
                        err |-> IF r.err # "none" THEN r.err
                                ELSE IF sessions[id] = NoRow THEN ErrRowNotFound
                                ELSE "none",
                        calls |-> r.calls]
        /\ UNCHANGED <<sessionRepo, nextClient, qrFlow, reconnect, connecting, qrRequest, superseded,
                       startup, lastCreate>>
        /\ UNCHANGED <<wvars, cvars>>

\* handler DeleteSession: sm.DeleteSession (its error is only logged), then
\* repo.Delete, which fails when it deleted no row
HandleDeleteSession(id) ==
    LET r == DeleteSession(whatsmeowClients, id)
    IN  /\ whatsmeowClients' = r.registry
        /\ sessions' = [sessions EXCEPT ![id] = NoRow]
        /\ lastCall' = [op |-> "DELETE", id |-> id,
                        err |-> IF sessions[id] = NoRow THEN ErrRowNotFound
                                ELSE "none",
                        calls |-> r.calls]
        /\ UNCHANGED <<sessionRepo, nextClient, qrFlow, reconnect, connecting, qrRequest, superseded,
                       startup, lastCreate>>
        /\ UNCHANGED <<wvars, cvars>>

\* mutant of DisconnectSession: the entry is dropped with the connection
DisconnectSessionDropsEntry(registry, id) ==
    IF registry[id] = NoClient
    THEN [registry |-> registry, err |-> ErrNotFound, calls |-> <<>>]
    ELSE IF ~registry[id].connected
    THEN [registry |-> registry, err |-> ErrNotConnected, calls |-> <<>>]
    ELSE [registry |-> [registry EXCEPT ![id] = NoClient], err |-> "none",
          calls |-> <<"Disconnect">>]

\* DisconnectSession
DisconnectSession(registry, id) ==
    IF registry[id] = NoClient
    THEN [registry |-> registry, err |-> ErrNotFound, calls |-> <<>>]
    ELSE IF ~registry[id].connected
    THEN [registry |-> registry, err |-> ErrNotConnected, calls |-> <<>>]
    ELSE [registry |-> [registry EXCEPT ![id] = Disconnected(@)], err |-> "none",
          calls |-> <<"Disconnect">>]

\* a caller of the manager's DisconnectSession
CallDisconnectSession(id) ==
    LET r == DisconnectSession(whatsmeowClients, id)
    IN  /\ whatsmeowClients' = r.registry
        /\ lastCall' = [op |-> "DisconnectSession", id |-> id, err |-> r.err,
                        calls |-> r.calls]
        /\ UNCHANGED <<sessionRepo, nextClient, sessions, qrFlow, reconnect,
                       connecting, qrRequest, superseded, startup, lastCreate>>
        /\ UNCHANGED <<wvars, cvars>>

(***************************************************************************)
(* Connect, logout                                                         *)
(***************************************************************************)
\* handler ConnectSession up to the return of sm.ConnectSession: an error
\* persists "disconnected"; otherwise the request still has to persist
\* "connecting", and for an unpaired client handleQREvents runs on the channel
HandleConnectSession(id, connectOK) ==
    LET client == whatsmeowClients[id]
        failed == client = NoClient \/ client.connected \/ ~connectOK
    IN  /\ sessions[id] # NoRow
        /\ id \notin connecting
        /\ IF failed
           THEN /\ sessions' = UpdateStatus(sessions, id, StatusDisconnected)
                /\ UNCHANGED <<whatsmeowClients, qrFlow, connecting, qrRequest, superseded>>
           ELSE /\ whatsmeowClients' = [whatsmeowClients EXCEPT ![id].connected = TRUE]
                /\ connecting' = connecting \cup {id}
                /\ IF client.storeID = NilJID
                   THEN /\ qrFlow[id].state # "running"
                        /\ qrFlow' = [qrFlow EXCEPT ![id] =
                                         [NoFlow EXCEPT !.state = "running",
                                                        !.h = client.h]]
                        /\ qrRequest' = qrRequest \cup {id}
                   ELSE UNCHANGED <<qrFlow, qrRequest>>
                /\ UNCHANGED superseded
                /\ UNCHANGED sessions
        /\ UNCHANGED <<sessionRepo, nextClient, reconnect, startup, lastCreate>>
        /\ UNCHANGED <<lastCall, wvars, cvars>>

\* handler ConnectSession after sm.ConnectSession returned nil
FinishConnectSession(id) ==
    /\ id \in connecting
    /\ connecting' = connecting \ {id}
    /\ qrRequest' = qrRequest \ {id}
    /\ UNCHANGED superseded
    /\ sessions' = UpdateStatus(sessions, id, StatusConnecting)
    /\ UNCHANGED <<sessionRepo, whatsmeowClients, nextClient, qrFlow, reconnect,
                   startup, lastCreate>>
    /\ UNCHANGED <<lastCall, wvars, cvars>>

\* mutant of ConnectSession: no look at the connection before connecting
ConnectSessionUnchecked(registry, id, connectOK) ==
    LET client == registry[id]
        opened == [registry EXCEPT ![id].connected = TRUE]
    IN  IF client = NoClient
        THEN [registry |-> registry, err |-> ErrNotFound, calls |-> <<>>,
              qr |-> FALSE]
        ELSE IF client.storeID = NilJID
        THEN [registry |-> IF connectOK THEN opened ELSE registry,
              err |-> IF connectOK THEN "none" ELSE ErrConnectFailed,
              calls |-> <<"GetQRChannel", "Connect">>,
              qr |-> connectOK]
        ELSE [registry |-> IF connectOK THEN opened ELSE registry,
              err |-> IF connectOK THEN "none" ELSE ErrConnect,
              calls |-> <<"Connect">>,
              qr |-> FALSE]

\* ConnectSession: qr tells whether handleQREvents was started on a QR channel
ConnectSession(registry, id, connectOK) ==
    LET client == registry[id]
        opened == [registry EXCEPT ![id].connected = TRUE]
    IN  IF client = NoClient
        THEN [registry |-> registry, err |-> ErrNotFound, calls |-> <<>>,
              qr |-> FALSE]
        ELSE IF client.connected
        THEN [registry |-> registry, err |-> ErrAlreadyConnected, calls |-> <<>>,
              qr |-> FALSE]
        ELSE IF client.storeID = NilJID
        THEN [registry |-> IF connectOK THEN opened ELSE registry,
              err |-> IF connectOK THEN "none" ELSE ErrConnectFailed,
              calls |-> <<"GetQRChannel", "Connect">>,
              qr |-> connectOK]
        ELSE [registry |-> IF connectOK THEN opened ELSE registry,
              err |-> IF connectOK THEN "none" ELSE ErrConnect,
              calls |-> <<"Connect">>,
              qr |-> FALSE]

\* a caller of the manager's ConnectSession
CallConnectSession(id, connectOK) ==
    LET r == ConnectSession(whatsmeowClients, id, connectOK)
    IN  /\ r.qr => qrFlow[id].state # "running"
        /\ whatsmeowClients' = r.registry
        /\ qrFlow' = IF r.qr
                     THEN [qrFlow EXCEPT ![id] =
                              [NoFlow EXCEPT !.state = "running",
                                             !.h = whatsmeowClients[id].h]]
                     ELSE qrFlow
        /\ lastCall' = [op |-> "ConnectSession", id |-> id, err |-> r.err,
                        calls |-> r.calls]
        /\ UNCHANGED <<sessionRepo, nextClient, sessions, reconnect, connecting, qrRequest, superseded,
                       startup, lastCreate>>
        /\ UNCHANGED <<wvars, cvars>>

\* mutant of PairPhone: the linking code is requested whatever Connect returned
PairPhoneIgnoringConnect(registry, id, connectOK, pairOK) ==
    LET client == registry[id]
    IN  IF client = NoClient
        THEN [registry |-> registry, err |-> ErrNotFound, calls |-> <<>>]
        ELSE IF IsLoggedIn(client)
        THEN [registry |-> registry, err |-> ErrAlreadyAuthenticated, calls |-> <<>>]
        ELSE [registry |-> IF connectOK THEN [registry EXCEPT ![id].connected = TRUE]
                           ELSE registry,
              err |-> IF pairOK THEN "none" ELSE ErrPairPhone,
              calls |-> (IF client.connected THEN <<>> ELSE <<"Connect">>)
                           \o <<"PairPhone">>]

\* PairPhone: Connect when the connection is not open, then client.PairPhone
PairPhone(registry, id, connectOK, pairOK) ==
    LET client == registry[id]
    IN  IF client = NoClient
        THEN [registry |-> registry, err |-> ErrNotFound, calls |-> <<>>]
        ELSE IF IsLoggedIn(client)
        THEN [registry |-> registry, err |-> ErrAlreadyAuthenticated, calls |-> <<>>]
        ELSE IF ~client.connected /\ ~connectOK
        THEN [registry |-> registry, err |-> ErrConnectFailed,
              calls |-> <<"Connect">>]
        ELSE [registry |-> [registry EXCEPT ![id].connected = TRUE],
              err |-> IF pairOK THEN "none" ELSE ErrPairPhone,
              calls |-> (IF client.connected THEN <<>> ELSE <<"Connect">>)
                           \o <<"PairPhone">>]

\* a caller of the manager's PairPhone
CallPairPhone(id, connectOK, pairOK) ==
    LET r == PairPhone(whatsmeowClients, id, connectOK, pairOK)
    IN  /\ whatsmeowClients' = r.registry
        /\ lastCall' = [op |-> "PairPhone", id |-> id, err |-> r.err,
                        calls |-> r.calls]
        /\ UNCHANGED <<sessionRepo, nextClient, sessions, qrFlow, reconnect,
                       connecting, qrRequest, superseded, startup, lastCreate>>
        /\ UNCHANGED <<wvars, cvars>>

\* LogoutSession: client.Logout unlinks the device at the server, drops the
\* connection and deletes the stored identity; when it fails nothing changed
LogoutSession(registry, id, logoutOK) ==
    LET client == registry[id]
    IN  IF client = NoClient
        THEN [registry |-> registry, err |-> ErrNotFound, calls |-> <<>>]
        ELSE IF ~IsLoggedIn(client)
        THEN [registry |-> registry, err |-> ErrNotLoggedIn, calls |-> <<>>]
        ELSE IF ~logoutOK
        THEN [registry |-> registry, err |-> ErrLogout, calls |-> <<"Logout">>]
        ELSE [registry |-> [registry EXCEPT ![id] =
                               [@ EXCEPT !.connected = FALSE, !.storeID = NilJID]],
              err |-> "none", calls |-> <<"Logout">>]

\* mutant of the handler's branch on the manager's error
LogoutErrorIgnored(err) == FALSE

\* handler LogoutSession: "if err := h.sessionManager.LogoutSession(...); err != nil"
LogoutRefused(err) == err # "none"

\* handler LogoutSession: repo.GetByID, sm.LogoutSession, then repo.SetDisconnected
HandleLogoutSession(id, logoutOK) ==
    LET r == LogoutSession(whatsmeowClients, id, logoutOK)
    IN  /\ IF sessions[id] = NoRow
           THEN /\ lastCall' = [op |-> "LOGOUT", id |-> id, err |-> ErrRowNotFound,
                                calls |-> <<>>]
                /\ UNCHANGED <<whatsmeowClients, sessions>>
           ELSE /\ whatsmeowClients' = r.registry
                /\ lastCall' = [op |-> "LOGOUT", id |-> id, err |-> r.err,
                                calls |-> r.calls]
                /\ sessions' = IF LogoutRefused(r.err) THEN sessions
                               ELSE SetDisconnected(sessions, id)
        /\ UNCHANGED <<sessionRepo, nextClient, qrFlow, reconnect, connecting, qrRequest, superseded,
                       startup, lastCreate>>
        /\ UNCHANGED <<wvars, cvars>>

(***************************************************************************)
(* Pairing flow                                                            *)
(***************************************************************************)
\* the client that owns the channel is still registered and connected
OwnerOnline(id) ==
    /\ whatsmeowClients[id].h = qrFlow[id].h
    /\ whatsmeowClients[id].connected

\* the QR channel hands out an item: a code while the owner is online; "timeout",
\* "success" (the phone scanned: the store now holds the account) or "error" end
\* the channel
QREmit(id, event, code) ==
    LET f == qrFlow[id]
    IN  /\ f.state = "running"
        /\ ~f.closed
        /\ Len(f.chan) < ChanCap
        /\ event \in {"code", "timeout", "success"} => OwnerOnline(id)
        /\ event = "code" => f.codes < MaxCodes
        /\ qrFlow' = [qrFlow EXCEPT ![id] =
                         [f EXCEPT !.chan = Append(@, [Event |-> event, Code |-> code]),
                                   !.closed = event # "code",
                                   !.codes = IF event = "code" THEN @ + 1 ELSE @]]
        /\ whatsmeowClients' =
              IF event = "success"
              THEN [whatsmeowClients EXCEPT ![id].storeID = AccountOf(id)]
              ELSE whatsmeowClients
        /\ UNCHANGED <<sessionRepo, nextClient, sessions, reconnect, connecting, qrRequest, superseded,
                       startup, lastCreate>>
        /\ UNCHANGED <<lastCall, wvars, cvars>>

\* the connection of a client drops (the network, or whatsmeow after a timeout)
ConnectionLost(id) ==
    /\ whatsmeowClients[id].connected
    /\ whatsmeowClients' = [whatsmeowClients EXCEPT ![id].connected = FALSE]
    /\ UNCHANGED <<sessionRepo, nextClient, sessions, qrFlow, reconnect, connecting, qrRequest, superseded,
                   startup, lastCreate>>
    /\ UNCHANGED <<lastCall, wvars, cvars>>

\* the repository writes of the pairing flow; each can fail
RepoWrites == {"UpdateQRCode", "SetDisconnected", "SetConnected"}

\* mutant of the error branches: a failed write ends the flow
ErrorEndsFlow(failed) == ~failed

\* "if err != nil { logger.Error(...) }": a failed write is logged and the flow
\* goes on
ErrorOnlyLogged(failed) == TRUE

\* handleQREvents: one iteration of "for evt := range qrChan"; saved holds the
\* repository writes that succeed
QRHandle(id, saved) ==
    LET f == qrFlow[id]
        evt == Head(f.chan)
        client == whatsmeowClients[id]
        paired == client # NoClient /\ client.storeID # NilJID
        ended == [f EXCEPT !.chan = <<>>, !.state = "returned", !.last = evt.Event]
    IN  /\ f.state = "running"
        /\ f.chan # <<>>
        /\ CASE evt.Event = "code" ->
                  /\ sessions' = IF "UpdateQRCode" \in saved
                                 THEN UpdateQRCode(sessions, id, EncodeQR(evt.Code))
                                 ELSE sessions
                  /\ qrFlow' = [qrFlow EXCEPT ![id] =
                                   IF ErrorOnlyLogged("UpdateQRCode" \notin saved)
                                   THEN [f EXCEPT !.chan = Tail(@), !.last = "code"]
                                   ELSE ended]
                  /\ UNCHANGED whatsmeowClients
             [] evt.Event = "timeout" ->
                  /\ sessions' = IF "SetDisconnected" \in saved
                                 THEN SetDisconnected(sessions, id)
                                 ELSE sessions
                  /\ whatsmeowClients' =
                        IF ErrorOnlyLogged("SetDisconnected" \notin saved)
                        THEN [whatsmeowClients EXCEPT ![id] = Disconnected(@)]
                        ELSE whatsmeowClients
                  /\ qrFlow' = [qrFlow EXCEPT ![id] = ended]
             [] evt.Event = "success" ->
                  LET connected ==
                          IF "SetConnected" \in saved
                          THEN SetConnected(sessions, id,
                                   IF paired THEN PhoneOf(client.storeID) ELSE "",
                                   IF paired THEN JIDString(client.storeID)
                                   ELSE EmptyString)
                          ELSE sessions
                      goesOn == ErrorOnlyLogged("SetConnected" \notin saved)
                  IN  /\ sessions' = IF goesOn /\ "UpdateQRCode" \in saved
                                     THEN UpdateQRCode(connected, id, EmptyString)
                                     ELSE connected
                      /\ qrFlow' = [qrFlow EXCEPT ![id] =
                                       IF goesOn
                                       THEN [f EXCEPT !.chan = Tail(@),
                                                      !.wasSuccessful = TRUE,
                                                      !.last = "success"]
                                       ELSE [ended EXCEPT !.wasSuccessful = TRUE]]
                      /\ UNCHANGED whatsmeowClients
             [] OTHER ->
                  /\ qrFlow' = [qrFlow EXCEPT ![id].chan = Tail(@), ![id].last = "error"]
                  /\ UNCHANGED <<sessions, whatsmeowClients>>
        /\ UNCHANGED <<sessionRepo, nextClient, reconnect, connecting, qrRequest, superseded, startup,
                       lastCreate>>
        /\ UNCHANGED <<lastCall, wvars, cvars>>

\* handleQREvents after the loop: the channel was closed
QRClosed(id, saved) ==
    LET f == qrFlow[id]
    IN  /\ f.state = "running"
        /\ f.chan = <<>>
        /\ f.closed
        /\ qrFlow' = [qrFlow EXCEPT ![id].state = "returned"]
        /\ IF f.wasSuccessful
           THEN UNCHANGED <<sessions, whatsmeowClients>>
           ELSE /\ sessions' = IF "SetDisconnected" \in saved
                               THEN SetDisconnected(sessions, id)
                               ELSE sessions
                /\ whatsmeowClients' =
                      IF ErrorOnlyLogged("SetDisconnected" \notin saved)
                      THEN [whatsmeowClients EXCEPT ![id] = Disconnected(@)]
                      ELSE whatsmeowClients
        /\ UNCHANGED <<sessionRepo, nextClient, reconnect, connecting, qrRequest, superseded, startup,
                       lastCreate>>
        /\ UNCHANGED <<lastCall, wvars, cvars>>

(***************************************************************************)
(* Reconnection supervisor                                                 *)
(***************************************************************************)
\* mutant of ConnectOnStartup: one goroutine per row
ConnectOnStartupEveryRow ==
    /\ ~startup
    /\ startup' = TRUE
    /\ reconnect' = [id \in SessionIds |->
                        IF sessions[id] # NoRow
                        THEN [pc |-> "check", err |-> "none"]
                        ELSE NoTask]
    /\ UNCHANGED <<sessionRepo, whatsmeowClients, nextClient, sessions, qrFlow,
                   connecting, qrRequest, superseded, lastCreate>>
    /\ UNCHANGED <<lastCall, wvars, cvars>>

\* ConnectOnStartup: one goroutine per row that is connected and has a device
\* identifier
ConnectOnStartup ==
    /\ ~startup
    /\ startup' = TRUE
    /\ reconnect' = [id \in SessionIds |->
                        IF /\ sessions[id].Status = StatusConnected
                           /\ sessions[id].DeviceJid # EmptyString
                        THEN [pc |-> "check", err |-> "none"]
                        ELSE NoTask]
    /\ UNCHANGED <<sessionRepo, whatsmeowClients, nextClient, sessions, qrFlow,
                   connecting, qrRequest, superseded, lastCreate>>
    /\ UNCHANGED <<lastCall, wvars, cvars>>

\* reconnectSession: sm.sessionExists(sessionID); a registered id is skipped
ReconnectCheck(id) ==
    /\ reconnect[id].pc = "check"
    /\ reconnect' = [reconnect EXCEPT ![id].pc =
                        IF whatsmeowClients[id] # NoClient THEN "done" ELSE "connect"]
    /\ UNCHANGED <<sessionRepo, whatsmeowClients, nextClient, sessions, qrFlow,
                   connecting, qrRequest, superseded, startup, lastCreate>>
    /\ UNCHANGED <<lastCall, wvars, cvars>>

\* what container.GetDevice and client.Connect answer
ReconnectOutcomes == {"missing", "noid", "refused", "ok"}

\* reconnectSession from container.GetDevice to client.Connect: a device that
\* does not resolve is persisted with SetDisconnected, a store without ID or a
\* refused connection with UpdateStatus(disconnected)
ReconnectConnect(id, outcome) ==
    /\ reconnect[id].pc = "connect"
    /\ CASE outcome = "missing" ->
              /\ sessions' = SetDisconnected(sessions, id)
              /\ reconnect' = [reconnect EXCEPT ![id] =
                                  [pc |-> "failed", err |-> ErrDeviceNotFound]]
         [] outcome = "noid" ->
              /\ sessions' = UpdateStatus(sessions, id, StatusDisconnected)
              /\ reconnect' = [reconnect EXCEPT ![id] =
                                  [pc |-> "failed", err |-> ErrNoDeviceID]]
         [] outcome = "refused" ->
              /\ sessions' = UpdateStatus(sessions, id, StatusDisconnected)
              /\ reconnect' = [reconnect EXCEPT ![id] =
                                  [pc |-> "failed", err |-> ErrConnect]]
         [] OTHER ->
              /\ nextClient < MaxClients
              /\ reconnect' = [reconnect EXCEPT ![id].pc = "register"]
              /\ UNCHANGED sessions
    /\ UNCHANGED <<sessionRepo, whatsmeowClients, nextClient, qrFlow, connecting, qrRequest, superseded,
                   startup, lastCreate>>
    /\ UNCHANGED <<lastCall, wvars, cvars>>

\* mutant of the registration: the connected client is dropped
ForgetWhatsmeowClient(registry, id, client) == registry

\* SetWhatsmeowClient: stores the client under the id, whatever is there
SetWhatsmeowClient(registry, id, client) == [registry EXCEPT ![id] = client]

\* reconnectSession: sm.SetWhatsmeowClient(sessionID, client), return nil
ReconnectRegister(id) ==
    /\ reconnect[id].pc = "register"
    /\ whatsmeowClients' =
          SetWhatsmeowClient(whatsmeowClients, id,
                             NewClient(nextClient + 1, AccountOf(id), TRUE))
    /\ nextClient' = nextClient + 1
    /\ reconnect' = [reconnect EXCEPT ![id].pc = "done"]
    /\ UNCHANGED <<sessionRepo, sessions, qrFlow, connecting, qrRequest, superseded, startup, lastCreate>>
    /\ UNCHANGED <<lastCall, wvars, cvars>>

\* the goroutine of ConnectOnStartup after reconnectSession returned an error
ReconnectFailed(id) ==
    /\ reconnect[id].pc = "failed"
    /\ sessions' = UpdateStatus(sessions, id, StatusDisconnected)
    /\ reconnect' = [reconnect EXCEPT ![id].pc = "done"]
    /\ UNCHANGED <<sessionRepo, whatsmeowClients, nextClient, qrFlow, connecting, qrRequest, superseded,
                   startup, lastCreate>>
    /\ UNCHANGED <<lastCall, wvars, cvars>>

(***************************************************************************)
(* Specifications of the session orchestrator                              *)
(***************************************************************************)
Next ==
    \/ \E id \in Requested : CallCreateSession(id)
    \/ \E id \in Requested : AddSession(id)
    \/ \E id \in Requested : HandleDeleteSession(id)
    \/ \E id \in Requested, ok \in BOOLEAN : HandleConnectSession(id, ok)
    \/ \E id \in Requested : FinishConnectSession(id)
    \/ \E id \in Requested, ok \in BOOLEAN : HandleLogoutSession(id, ok)
    \/ \E id \in Requested, e \in {"code", "timeout", "success", "error"},
          c \in QRCodes : QREmit(id, e, c)
    \/ \E id \in Requested : ConnectionLost(id)
    \/ \E id \in Requested : QRHandle(id, RepoWrites)
    \/ \E id \in Requested : QRClosed(id, RepoWrites)
    \/ ConnectOnStartup
    \/ \E id \in Requested : ReconnectCheck(id)
    \/ \E id \in Requested, o \in ReconnectOutcomes : ReconnectConnect(id, o)
    \/ \E id \in Requested : ReconnectRegister(id)
    \/ \E id \in Requested : ReconnectFailed(id)

Spec == Init /\ [][Next]_vars

\* the reconnection supervisor alone: ConnectOnStartup and its goroutines
StartupNext ==
    \/ ConnectOnStartup
    \/ \E id \in SessionIds : ReconnectCheck(id)
    \/ \E id \in SessionIds, o \in ReconnectOutcomes : ReconnectConnect(id, o)
    \/ \E id \in SessionIds : ReconnectRegister(id)
    \/ \E id \in SessionIds : ReconnectFailed(id)

SpecStartup == StartupInit /\ [][StartupNext]_vars

\* the reconnection supervisor next to callers of CreateSession
SupervisorNext ==
    \/ StartupNext
    \/ \E id \in SessionIds : CallCreateSession(id)

SpecSupervisor == StartupInit /\ [][SupervisorNext]_vars

\* the manager's operations called directly on both ids, on a registry that
\* starts empty; the phone and the network act on the requested session
ManagerInit ==
    /\ WInit
    /\ ClientInit
    /\ NewSessionManager([id \in SessionIds |-> NoRow], "bun")

ManagerNext ==
    \/ \E id \in SessionIds : CallCreateSession(id)
    \/ \E id \in SessionIds : CallDeleteSession(id)
    \/ \E id \in SessionIds : CallDisconnectSession(id)
    \/ \E id \in SessionIds, ok \in BOOLEAN : CallConnectSession(id, ok)
    \/ \E id \in SessionIds, ok \in BOOLEAN, pairOK \in BOOLEAN :
          CallPairPhone(id, ok, pairOK)
    \/ \E id \in Requested, e \in {"code", "timeout", "success", "error"},
          c \in QRCodes : QREmit(id, e, c)
    \/ \E id \in Requested : ConnectionLost(id)
    \/ \E id \in Requested : QRHandle(id, RepoWrites)
    \/ \E id \in Requested : QRClosed(id, RepoWrites)

SpecManager == ManagerInit /\ [][ManagerNext]_vars

\* The scheduling the pairing flow relies on: the QR channel of a running flow
\* keeps delivering until it is closed, and the handleQREvents goroutine
\* handles what it receives
ManagerFairness ==
    \A id \in SessionIds :
        /\ WF_vars(\E e \in {"code", "timeout", "success", "error"}, c \in QRCodes :
                      QREmit(id, e, c))
        /\ WF_vars(QRHandle(id, RepoWrites))
        /\ WF_vars(QRClosed(id, RepoWrites))

\* DisconnectSession next to the DELETE handler and the pairing flow, on a
\* table that holds what earlier runs left
HandlesInit ==
    /\ WInit
    /\ ClientInit
    /\ \E table \in InitialTables(Requested), repo \in {"sql", "bun"} :
          NewSessionManager(table, repo)

HandlesNext ==
    \/ \E id \in Requested : CallCreateSession(id)
    \/ \E id \in Requested, ok \in BOOLEAN : CallConnectSession(id, ok)
    \/ \E id \in Requested : CallDisconnectSession(id)
    \/ \E id \in Requested : HandleDeleteSession(id)
    \/ \E id \in Requested, e \in {"code", "timeout", "success", "error"},
          c \in QRCodes : QREmit(id, e, c)
    \/ \E id \in Requested : ConnectionLost(id)
    \/ \E id \in Requested : QRHandle(id, RepoWrites)
    \/ \E id \in Requested : QRClosed(id, RepoWrites)

SpecHandles == HandlesInit /\ [][HandlesNext]_vars

SpecHandlesFair == SpecHandles /\ ManagerFairness

(***************************************************************************)
(* A connect request while handleQREvents of an earlier connection runs    *)
(***************************************************************************)
MaxSuperseded == 1

\* sm.ConnectSession for an unpaired session whose connection is closed while
\* handleQREvents still ranges over the channel of the earlier connection:
\* IsConnected() is false, GetQRChannel returns a new channel, Connect
\* succeeds and a second handleQREvents is started
ConnectSessionAgain(id, connectOK) ==
    LET r == ConnectSession(whatsmeowClients, id, connectOK)
    IN  /\ r.qr
        /\ qrFlow[id].state = "running"
        /\ superseded[id] < MaxSuperseded
        /\ whatsmeowClients' = r.registry
        /\ superseded' = [superseded EXCEPT ![id] = @ + 1]
        /\ qrFlow' = [qrFlow EXCEPT ![id] =
                         [NoFlow EXCEPT !.state = "running",
                                        !.h = whatsmeowClients[id].h]]
        /\ lastCall' = [op |-> "ConnectSession", id |-> id, err |-> r.err,
                        calls |-> r.calls]
        /\ UNCHANGED <<sessionRepo, nextClient, sessions, reconnect, connecting,
                       qrRequest, startup, lastCreate>>
        /\ UNCHANGED <<wvars, cvars>>

\* the earlier handleQREvents ends: its channel timed out or was closed without
\* a success, so it writes SetDisconnected and disconnects the client that
\* the registry holds for the session
SupersededReturns(id) ==
    /\ superseded[id] > 0
    /\ superseded' = [superseded EXCEPT ![id] = @ - 1]
    /\ sessions' = SetDisconnected(sessions, id)
    /\ whatsmeowClients' =
          IF whatsmeowClients[id] # NoClient
          THEN [whatsmeowClients EXCEPT ![id] = Disconnected(@)]
          ELSE whatsmeowClients
    /\ UNCHANGED <<sessionRepo, nextClient, qrFlow, reconnect, connecting, qrRequest,
                   startup, lastCreate>>
    /\ UNCHANGED <<lastCall, wvars, cvars>>

FlowsNext ==
    \/ \E id \in Requested : CallCreateSession(id)
    \/ \E id \in Requested, ok \in BOOLEAN : CallConnectSession(id, ok)
    \/ \E id \in Requested, ok \in BOOLEAN : ConnectSessionAgain(id, ok)
    \/ \E id \in Requested : SupersededReturns(id)
    \/ \E id \in Requested : CallDisconnectSession(id)
    \/ \E id \in Requested, e \in {"code", "timeout", "success", "error"},
          c \in QRCodes : QREmit(id, e, c)
    \/ \E id \in Requested : ConnectionLost(id)
    \/ \E id \in Requested : QRHandle(id, RepoWrites)
    \/ \E id \in Requested : QRClosed(id, RepoWrites)

SpecFlows == HandlesInit /\ [][FlowsNext]_vars

\* the pairing flow of one session on a database whose writes can fail
PairingInit ==
    /\ WInit
    /\ ClientInit
    /\ \E repo \in {"sql", "bun"} :
          NewSessionManager([id \in SessionIds |-> NoRow], repo)

PairingNext ==
    \/ \E id \in Requested : AddSession(id)
    \/ \E id \in Requested, ok \in BOOLEAN : HandleConnectSession(id, ok)
    \/ \E id \in Requested : FinishConnectSession(id)
    \/ \E id \in Requested, e \in {"code", "timeout", "success", "error"},
          c \in QRCodes : QREmit(id, e, c)
    \/ \E id \in Requested : ConnectionLost(id)
    \/ \E id \in Requested, saved \in SUBSET RepoWrites : QRHandle(id, saved)
    \/ \E id \in Requested, saved \in SUBSET RepoWrites : QRClosed(id, saved)

SpecPairing == PairingInit /\ [][PairingNext]_vars

(***************************************************************************)
(* Per-session client: the event handler and its callers                   *)
(***************************************************************************)
\* ZPigoClient.SetActive, called from outside the handler: Lock, write, Unlock
SetActive(active) ==
    /\ CanLock(zc.mu)
    /\ zc' = [zc EXCEPT !.IsActive = active]
    /\ UNCHANGED <<cache, handler, webhookCalls, prepared, lastAuth>>
    /\ UNCHANGED <<wvars, svars>>

\* ZPigoClient.UpdateSubscriptions: Lock, write, Unlock
UpdateSubscriptions(subscriptions) ==
    /\ CanLock(zc.mu)
    /\ zc' = [zc EXCEPT !.Subscriptions = subscriptions]
    /\ UNCHANGED <<cache, handler, webhookCalls, prepared, lastAuth>>
    /\ UNCHANGED <<wvars, svars>>

\* ZPigoClient.shouldSendEvent
ClientShouldSendEvent(subscriptions, eventType) ==
    /\ Len(subscriptions) # 0
    /\ \E i \in 1..Len(subscriptions) :
          subscriptions[i] = "All" \/ subscriptions[i] = eventType

\* what the handle...Event function of an event writes into the item of the
\* client: handleConnectedEvent, handleDisconnectedEvent,
\* handleStreamReplacedEvent, handleLoggedOutEvent, handlePairSuccessEvent,
\* handleQREvent
HandledInCache(c, cacheKey, evt, id) ==
    CASE evt = "Connected" -> UpdateSessionInfo(c, cacheKey, "Status", "connected")
      [] evt = "Disconnected" ->
            UpdateSessionInfo(c, cacheKey, "Status", "disconnected")
      [] evt = "StreamReplaced" ->
            UpdateSessionInfo(c, cacheKey, "Status", "stream_replaced")
      [] evt = "LoggedOut" ->
            UpdateSessionInfo(
                UpdateSessionInfo(
                    UpdateSessionInfo(
                        UpdateSessionInfo(c, cacheKey, "Status", "disconnected"),
                        cacheKey, "Jid", EmptyString),
                    cacheKey, "Qrcode", EmptyString),
                cacheKey, "LogoutReason", "reason")
      [] evt = "PairSuccess" ->
            UpdateSessionInfo(c, cacheKey, "Jid", JIDString(AccountOf(id)))
      [] evt = "QR" ->
            UpdateSessionInfo(c, cacheKey, "Qrcode", <<CHOOSE code \in QRCodes : TRUE>>)
      [] OTHER -> c

\* ZPigoClient.EventHandler, on the goroutine whatsmeow dispatches events on.
\* It holds zc.mu for reading from its first line to its return; the handlers
\* of the four events that flip the active flag call SetActive, whose Lock
\* returns only once no reader holds zc.mu.
EventHandler(evt) ==
    LET held == [zc.mu EXCEPT !.readers = @ + 1]
        cacheKey == BuildCacheKey(zc.APIKey, zc.SessionID)
        returned == [pc |-> "idle", event |-> "", events |-> handler.events + 1]
    IN  /\ handler.pc = "idle"
        /\ handler.events < MaxEvents
        /\ CanRLock(zc.mu)
        /\ IF ~zc.IsActive \/ evt \notin ClassifiedEvents
           THEN /\ handler' = returned
                /\ UNCHANGED <<zc, cache, webhookCalls>>
           ELSE IF evt \in FlipEvents /\ ~CanLock(held)
           THEN /\ handler' = [returned EXCEPT !.pc = "SetActive", !.event = evt]
                /\ zc' = [zc EXCEPT !.mu = [held EXCEPT !.writer = "waiting"]]
                /\ UNCHANGED <<cache, webhookCalls>>
           ELSE /\ handler' = returned
                /\ zc' = [zc EXCEPT !.IsActive =
                             IF evt \in FlipEvents THEN evt = "Connected" ELSE @]
                /\ cache' = HandledInCache(cache, cacheKey, evt, zc.SessionID)
                /\ webhookCalls' =
                      IF ClientShouldSendEvent(zc.Subscriptions, evt)
                      THEN Append(webhookCalls,
                                  [type |-> evt, sessionId |-> zc.SessionID])
                      ELSE webhookCalls
        /\ UNCHANGED <<prepared, lastAuth>>
        /\ UNCHANGED <<wvars, svars>>

\* ZPigoClient.callWebhook, one goroutine per postmap: it copies the event
\* data and logs "Webhook preparado para envio"
callWebhook ==
    /\ webhookCalls # <<>>
    /\ webhookCalls' = Tail(webhookCalls)
    /\ prepared' = prepared + 1
    /\ UNCHANGED <<cache, zc, handler, lastAuth>>
    /\ UNCHANGED <<wvars, svars>>

(***************************************************************************)
(* Session Info Cache: authentication and the ...ByAPIKey operations       *)
(***************************************************************************)
\* AuthManager.ValidateAPIKey
ValidateAPIKey(apiKey, sessionID) ==
    LET cacheKey == BuildCacheKey(apiKey, sessionID)
        answer(err, from) ==
            [apiKey |-> apiKey, id |-> sessionID, err |-> err, from |-> from]
    IN  /\ IF apiKey = ""
           THEN /\ lastAuth' = answer(ErrAPIKeyRequired, "none")
                /\ UNCHANGED cache
           ELSE IF sessionID = ""
           THEN /\ lastAuth' = answer(ErrSessionIDRequired, "none")
                /\ UNCHANGED cache
           ELSE IF cache[cacheKey] # NoInfo
           THEN /\ lastAuth' = answer("none", "cache")
                /\ UNCHANGED cache
           ELSE IF sessions[sessionID] = NoRow
           THEN /\ lastAuth' = answer(ErrSessionNotFound, "none")
                /\ UNCHANGED cache
           ELSE /\ lastAuth' = answer("none", "db")
                /\ cache' = [cache EXCEPT ![cacheKey] =
                      NewSessionInfoFromModel(sessionID, sessions[sessionID], apiKey)]
        /\ UNCHANGED <<zc, handler, webhookCalls, prepared>>
        /\ UNCHANGED <<wvars, svars>>

\* SessionManager.LogoutSessionByAPIKey; client.Logout fails for a device that
\* is not logged in and when the server refuses
LogoutSessionByAPIKey(apiKey, sessionID, logoutOK) ==
    LET client == whatsmeowClients[sessionID]
        cacheKey == BuildCacheKey(apiKey, sessionID)
        return(err, calls) ==
            [op |-> "LogoutSessionByAPIKey", id |-> sessionID, err |-> err,
             calls |-> calls]
    IN  /\ IF client = NoClient
           THEN /\ lastCall' = return(ErrNotFound, <<>>)
                /\ UNCHANGED <<whatsmeowClients, cache>>
           ELSE IF cache[cacheKey] = NoInfo
           THEN /\ lastCall' = return(ErrUnauthorized, <<>>)
                /\ UNCHANGED <<whatsmeowClients, cache>>
           ELSE IF ~IsLoggedIn(client) \/ ~logoutOK
           THEN /\ lastCall' = return(ErrLogout, <<"Logout">>)
                /\ UNCHANGED <<whatsmeowClients, cache>>
           ELSE /\ lastCall' = return("none", <<"Logout">>)
                /\ whatsmeowClients' = [whatsmeowClients EXCEPT ![sessionID] =
                      [@ EXCEPT !.connected = FALSE, !.storeID = NilJID]]
                /\ cache' =
                      UpdateSessionInfo(
                          UpdateSessionInfo(
                              UpdateSessionInfo(cache, cacheKey, "Status",
                                                "disconnected"),
                              cacheKey, "JID", EmptyString),
                          cacheKey, "QRCode", EmptyString)
        /\ UNCHANGED <<sessionRepo, nextClient, sessions, qrFlow, reconnect,
                       connecting, qrRequest, superseded, startup, lastCreate>>
        /\ UNCHANGED <<zc, handler, webhookCalls, prepared, lastAuth>>
        /\ UNCHANGED wvars

\* SessionManager.DeleteSessionByAPIKey
DeleteSessionByAPIKey(apiKey, sessionID) ==
    LET cacheKey == BuildCacheKey(apiKey, sessionID)
        r == DeleteSession(whatsmeowClients, sessionID)
        return(err, calls) ==
            [op |-> "DeleteSessionByAPIKey", id |-> sessionID, err |-> err,
             calls |-> calls]
    IN  /\ IF cache[cacheKey] = NoInfo
           THEN /\ lastCall' = return(ErrUnauthorized, <<>>)
                /\ UNCHANGED <<whatsmeowClients, cache>>
           ELSE IF r.err # "none"
           THEN /\ lastCall' = return(r.err, r.calls)
                /\ UNCHANGED <<whatsmeowClients, cache>>
           ELSE /\ lastCall' = return("none", r.calls)
                /\ whatsmeowClients' = r.registry
                /\ cache' = DeleteSessionInfo(cache, cacheKey)
        /\ UNCHANGED <<sessionRepo, nextClient, sessions, qrFlow, reconnect,
                       connecting, qrRequest, superseded, startup, lastCreate>>
        /\ UNCHANGED <<zc, handler, webhookCalls, prepared, lastAuth>>
        /\ UNCHANGED wvars

\* the client of a session that has a row: its callers, the events whatsmeow
\* dispatches to it, the authentication middleware, and a webhook
\* configuration for the global scope
DispatchInit ==
    /\ WInit
    /\ ClientInit
    /\ NewSessionManager([id \in SessionIds |->
                             IF id \in Requested THEN NewRow ELSE NoRow], "bun")

DispatchNext ==
    \/ \E active \in BOOLEAN : SetActive(active)
    \/ \E subscriptions \in SubscriptionLists : UpdateSubscriptions(subscriptions)
    \/ \E evt \in ClientEvents : EventHandler(evt)
    \/ callWebhook
    \/ \E config \in ConfigInputs : SetGlobalConfig(config)
    \/ \E apiKey \in APIKeys \cup {""}, id \in Requested \cup {""} :
          ValidateAPIKey(apiKey, id)

SpecDispatch == DispatchInit /\ [][DispatchNext]_vars

\* process start with a row for the requested session or none, the
\* reconnection supervisor, the authentication middleware, the operations on
\* the cache, the delete request, and the events of the client that write
\* authentication material into the cache or clear it
AuthInit ==
    /\ WInit
    /\ ClientInit
    /\ \E table \in InitialTables(Requested) : NewSessionManager(table, "bun")

AuthNext ==
    \/ ConnectOnStartup
    \/ \E id \in Requested : ReconnectCheck(id)
    \/ \E id \in Requested, o \in ReconnectOutcomes : ReconnectConnect(id, o)
    \/ \E id \in Requested : ReconnectRegister(id)
    \/ \E id \in Requested : ReconnectFailed(id)
    \/ \E apiKey \in APIKeys, id \in Requested : ValidateAPIKey(apiKey, id)
    \/ \E apiKey \in APIKeys, id \in Requested, ok \in BOOLEAN :
          LogoutSessionByAPIKey(apiKey, id, ok)
    \/ \E apiKey \in APIKeys, id \in Requested : DeleteSessionByAPIKey(apiKey, id)
    \/ \E id \in Requested : HandleDeleteSession(id)
    \/ \E active \in BOOLEAN : SetActive(active)
    \/ \E evt \in {"PairSuccess", "LoggedOut"} : EventHandler(evt)

SpecAuth == AuthInit /\ [][AuthNext]_vars

(***************************************************************************)
(* C1. The registry holds at most one client per session id, and a call of *)
(* CreateSession for an id that has a client returns the "already exists"  *)
(* error with no client and leaves the registered client as it was.        *)
(***************************************************************************)
\* a step in which CreateSession(id) returned
CreateReturned(id) == lastCreate' # lastCreate /\ lastCreate'.id = id

C1_CreateRejected ==
    [][\A id \in SessionIds :
          (CreateReturned(id) /\ whatsmeowClients[id] # NoClient)
             => /\ lastCreate'.err = ErrAlreadyExists
                /\ lastCreate'.client = 0
                /\ whatsmeowClients'[id] = whatsmeowClients[id]]_vars

\* a refused CreateSession, the id still registered
C1_Witness ==
    /\ lastCreate.err = ErrAlreadyExists
    /\ \E id \in SessionIds :
          lastCreate.id = id /\ whatsmeowClients[id] # NoClient

(***************************************************************************)
(* C2. Whatever the interleaving of CreateSession, the reconnection task   *)
(* and DeleteSession on one id, no step replaces the client registered for *)
(* an id by a different client.                                            *)
(***************************************************************************)
C2_Original ==
    [][\A id \in SessionIds :
          (whatsmeowClients[id] # NoClient /\ whatsmeowClients'[id] # NoClient)
             => whatsmeowClients'[id].h = whatsmeowClients[id].h]_vars

(***************************************************************************)
(* C3. In every state the persisted status of a session is "connected"     *)
(* exactly when its persisted device identifier is not empty.              *)
(***************************************************************************)
C3_Original ==
    \A id \in SessionIds :
        sessions[id] # NoRow
           => (sessions[id].Status = StatusConnected
                  <=> sessions[id].DeviceJid # EmptyString)

(***************************************************************************)
(* C7. When the pairing flow handles a code, the persisted QR field        *)
(* becomes the encoded form of that code and a status of "connecting"      *)
(* stays; when it handles the timeout, the persisted status becomes        *)
(* "disconnected" and the persisted QR field is cleared.                   *)
(***************************************************************************)
\* the step in which handleQREvents handles the head of the channel
QRHandles(id, event) ==
    /\ qrFlow[id].state = "running"
    /\ qrFlow[id].chan # <<>>
    /\ Head(qrFlow[id].chan).Event = event
    /\ qrFlow'[id].last = event
    /\ qrFlow'[id] # qrFlow[id]
    /\ sessions[id] # NoRow

C7_Original ==
    [][\A id \in SessionIds :
          /\ QRHandles(id, "code")
                => /\ sessions'[id].QRCode = EncodeQR(Head(qrFlow[id].chan).Code)
                   /\ sessions[id].Status = StatusConnecting
                         => sessions'[id].Status = StatusConnecting
          /\ QRHandles(id, "timeout")
                => /\ sessions'[id].Status = StatusDisconnected
                   /\ sessions'[id].QRCode = EmptyString]_vars

(***************************************************************************)
(* C8. A reconnection task that ended because its device did not resolve   *)
(* leaves its session persisted as disconnected and unregistered; one that *)
(* ended without error leaves its session registered, connected and        *)
(* persisted as connected; and a step of one task changes nothing of       *)
(* another session.                                                        *)
(***************************************************************************)
ReconnectOutcome(id) ==
    reconnect[id].pc = "done"
       => /\ reconnect[id].err = ErrDeviceNotFound
                => /\ sessions[id].Status = StatusDisconnected
                   /\ whatsmeowClients[id] = NoClient
          /\ reconnect[id].err = "none"
                => /\ whatsmeowClients[id] # NoClient
                   /\ whatsmeowClients[id].connected
                   /\ sessions[id].Status = StatusConnected

OthersUntouched ==
    \A id \in SessionIds :
        (reconnect[id].pc # "none" /\ reconnect'[id] # reconnect[id])
           => \A other \in SessionIds \ {id} :
                 /\ sessions'[other] = sessions[other]
                 /\ whatsmeowClients'[other] = whatsmeowClients[other]
                 /\ reconnect'[other] = reconnect[other]

C8_IndependentOutcomes ==
    /\ [](\A id \in SessionIds : ReconnectOutcome(id))
    /\ [][OthersUntouched]_vars

\* both tasks over: s1's device did not resolve, s2 reconnected
C8_Witness ==
    /\ reconnect["s1"] = [pc |-> "done", err |-> ErrDeviceNotFound]
    /\ sessions["s1"].Status = StatusDisconnected
    /\ whatsmeowClients["s1"] = NoClient
    /\ reconnect["s2"] = [pc |-> "done", err |-> "none"]
    /\ whatsmeowClients["s2"].connected
    /\ sessions["s2"].Status = StatusConnected

(***************************************************************************)
(* C13. DeleteSession on a registered id disconnects the client when its   *)
(* connection is open and leaves no registry entry for the id; on an       *)
(* unregistered id it fails with "not found" and leaves the registry as it *)
(* was; in both cases the entry of every other session stays as it was.    *)
(***************************************************************************)
C13_DeleteSession ==
    [][\A id \in SessionIds :
          CallDeleteSession(id)
             => /\ whatsmeowClients[id] # NoClient
                      => /\ lastCall'.err = "none"
                         /\ whatsmeowClients'[id] = NoClient
                         /\ whatsmeowClients[id].connected
                               <=> lastCall'.calls = <<"Disconnect">>
                /\ whatsmeowClients[id] = NoClient
                      => /\ lastCall'.err = ErrNotFound
                         /\ lastCall'.calls = <<>>
                         /\ whatsmeowClients' = whatsmeowClients
                /\ \A other \in SessionIds \ {id} :
                      whatsmeowClients'[other] = whatsmeowClients[other]]_vars

\* s1, connected, was deleted; s2 is still registered and connected
C13_Witness ==
    /\ lastCall = [op |-> "DeleteSession", id |-> "s1", err |-> "none",
                   calls |-> <<"Disconnect">>]
    /\ whatsmeowClients["s1"] = NoClient
    /\ whatsmeowClients["s2"] # NoClient
    /\ whatsmeowClients["s2"].connected

(***************************************************************************)
(* C14. DisconnectSession on a registered session whose connection is open *)
(* closes the connection and leaves the registry entry, the same client;   *)
(* it fails with "not found" on an unregistered id and with "not           *)
(* connected" when the connection is not open, and changes nothing then.   *)
(***************************************************************************)
C14_DisconnectSession ==
    [][\A id \in SessionIds :
          CallDisconnectSession(id)
             => LET client == whatsmeowClients[id]
                IN  /\ client = NoClient
                          => /\ lastCall'.err = ErrNotFound
                             /\ lastCall'.calls = <<>>
                             /\ UNCHANGED <<whatsmeowClients, qrFlow, sessions>>
                    /\ (client # NoClient /\ ~client.connected)
                          => /\ lastCall'.err = ErrNotConnected
                             /\ lastCall'.calls = <<>>
                             /\ UNCHANGED <<whatsmeowClients, qrFlow, sessions>>
                    /\ (client # NoClient /\ client.connected)
                          => /\ lastCall'.err = "none"
                             /\ lastCall'.calls = <<"Disconnect">>
                             /\ whatsmeowClients' =
                                   [whatsmeowClients EXCEPT ![id].connected = FALSE]]_vars

\* a paired session was disconnected and is still registered
C14_Witness ==
    /\ lastCall = [op |-> "DisconnectSession", id |-> "s1", err |-> "none",
                   calls |-> <<"Disconnect">>]
    /\ whatsmeowClients["s1"] # NoClient
    /\ ~whatsmeowClients["s1"].connected
    /\ whatsmeowClients["s1"].storeID = AccountOf("s1")

(***************************************************************************)
(* C15. ConnectSession fails with "not found" on an unregistered id and    *)
(* with "already connected" when the connection is open, and then starts   *)
(* neither a connection attempt nor a pairing flow; for a registered       *)
(* client that is not connected and was never paired, a successful call    *)
(* got the QR channel, connected, and runs the pairing flow on that        *)
(* channel; for a paired client it connected with the stored identity and  *)
(* started no pairing flow.                                                *)
(***************************************************************************)
C15_ConnectSession ==
    [][\A id \in SessionIds :
          (\E ok \in BOOLEAN : CallConnectSession(id, ok))
             => LET client == whatsmeowClients[id]
                IN  /\ client = NoClient
                          => /\ lastCall'.err = ErrNotFound
                             /\ lastCall'.calls = <<>>
                             /\ UNCHANGED <<whatsmeowClients, qrFlow>>
                    /\ (client # NoClient /\ client.connected)
                          => /\ lastCall'.err = ErrAlreadyConnected
                             /\ lastCall'.calls = <<>>
                             /\ UNCHANGED <<whatsmeowClients, qrFlow>>
                    /\ (client # NoClient /\ ~client.connected
                           /\ client.storeID = NilJID /\ lastCall'.err = "none")
                          => /\ lastCall'.calls = <<"GetQRChannel", "Connect">>
                             /\ whatsmeowClients'[id] =
                                   [client EXCEPT !.connected = TRUE]
                             /\ qrFlow'[id].state = "running"
                             /\ qrFlow'[id].h = client.h
                             /\ qrFlow'[id].chan = <<>>
                    /\ (client # NoClient /\ ~client.connected
                           /\ client.storeID # NilJID /\ lastCall'.err = "none")
                          => /\ lastCall'.calls = <<"Connect">>
                             /\ whatsmeowClients'[id] =
                                   [client EXCEPT !.connected = TRUE]
                             /\ qrFlow' = qrFlow]_vars

\* a paired session connected again with its stored identity
C15_Witness ==
    /\ lastCall = [op |-> "ConnectSession", id |-> "s1", err |-> "none",
                   calls |-> <<"Connect">>]
    /\ whatsmeowClients["s1"].connected
    /\ whatsmeowClients["s1"].storeID = AccountOf("s1")
    /\ qrFlow["s1"].state = "returned"

(***************************************************************************)
(* C16. PairPhone fails with "not found" on an unregistered id and with    *)
(* "already authenticated" when the client is logged in, without a call of *)
(* the client; otherwise it connects first when the connection is not      *)
(* open, and requests the linking code only when that connect did not fail.*)
(***************************************************************************)
C16_PairPhone ==
    [][\A id \in SessionIds :
          (\E ok \in BOOLEAN, pairOK \in BOOLEAN : CallPairPhone(id, ok, pairOK))
             => LET client == whatsmeowClients[id]
                    calls == lastCall'.calls
                    requested == \E i \in 1..Len(calls) : calls[i] = "PairPhone"
                IN  /\ client = NoClient
                          => /\ lastCall'.err = ErrNotFound
                             /\ calls = <<>>
                             /\ whatsmeowClients' = whatsmeowClients
                    /\ (client # NoClient /\ IsLoggedIn(client))
                          => /\ lastCall'.err = ErrAlreadyAuthenticated
                             /\ calls = <<>>
                             /\ whatsmeowClients' = whatsmeowClients
                    /\ (client # NoClient /\ ~IsLoggedIn(client))
                          => /\ client.connected => calls = <<"PairPhone">>
                             /\ ~client.connected
                                   => /\ calls # <<>>
                                      /\ Head(calls) = "Connect"
                             /\ requested => whatsmeowClients'[id].connected
                             /\ lastCall'.err = ErrConnectFailed
                                   => /\ ~requested
                                      /\ whatsmeowClients' = whatsmeowClients
                             /\ lastCall'.err # ErrConnectFailed => requested]_vars

\* a registered client that was not connected: connected, then asked for the code
C16_Witness ==
    /\ lastCall = [op |-> "PairPhone", id |-> "s1", err |-> "none",
                   calls |-> <<"Connect", "PairPhone">>]
    /\ whatsmeowClients["s1"].connected

(***************************************************************************)
(* C17. A logout request fails with "not found" when the id is not         *)
(* registered and with "not authenticated" when the client is not logged   *)
(* in, without a call of the client's Logout; it marks the persisted       *)
(* record disconnected only after the client's Logout succeeded, and       *)
(* leaves the record as it was when Logout failed.                         *)
(***************************************************************************)
C17_LogoutSession ==
    [][\A id \in SessionIds :
          (\E ok \in BOOLEAN : HandleLogoutSession(id, ok))
             => LET client == whatsmeowClients[id]
                IN  /\ (sessions[id] # NoRow /\ client = NoClient)
                          => /\ lastCall'.err = ErrNotFound
                             /\ lastCall'.calls = <<>>
                             /\ UNCHANGED <<whatsmeowClients, sessions>>
                    /\ (sessions[id] # NoRow /\ client # NoClient
                           /\ ~IsLoggedIn(client))
                          => /\ lastCall'.err = ErrNotLoggedIn
                             /\ lastCall'.calls = <<>>
                             /\ UNCHANGED <<whatsmeowClients, sessions>>
                    /\ lastCall'.err # "none"
                          => UNCHANGED <<whatsmeowClients, sessions>>
                    /\ lastCall'.err = "none"
                          => /\ lastCall'.calls = <<"Logout">>
                             /\ IsLoggedIn(client)
                             /\ whatsmeowClients'[id].storeID = NilJID
                             /\ sessions'[id].Status = StatusDisconnected]_vars

\* the client's Logout failed: the client is still logged in and the record
\* still says connected
C17_Witness ==
    /\ lastCall = [op |-> "LOGOUT", id |-> "s1", err |-> ErrLogout,
                   calls |-> <<"Logout">>]
    /\ IsLoggedIn(whatsmeowClients["s1"])
    /\ sessions["s1"].Status = StatusConnected

(***************************************************************************)
(* C18. A delete request for a session that has a persisted record and no  *)
(* registry entry is not ended by the manager's "not found": the record is *)
(* deleted and the request succeeds; after every successful delete request *)
(* the session has neither a registry entry nor a persisted record.        *)
(***************************************************************************)
C18_DeleteRequest ==
    [][\A id \in SessionIds :
          HandleDeleteSession(id)
             => /\ (sessions[id] # NoRow /\ whatsmeowClients[id] = NoClient)
                      => /\ lastCall'.err = "none"
                         /\ sessions'[id] = NoRow
                /\ lastCall'.err = "none"
                      => /\ sessions'[id] = NoRow
                         /\ whatsmeowClients'[id] = NoClient]_vars

\* a record was deleted for a session that never had a client
C18_Witness ==
    /\ nextClient = 0
    /\ lastCall = [op |-> "DELETE", id |-> "s1", err |-> "none", calls |-> <<>>]
    /\ sessions["s1"] = NoRow
    /\ whatsmeowClients["s1"] = NoClient

(***************************************************************************)
(* C26. When the pairing event stream closes without a success event and   *)
(* without a timeout event, the flow does what it does on a timeout: the   *)
(* persisted status becomes "disconnected", the persisted pairing code is  *)
(* cleared, the connection is closed if it is open, and the flow ends.     *)
(***************************************************************************)
\* the step in which handleQREvents leaves its loop on the closed channel
StreamCloses(id) ==
    /\ qrFlow[id].state = "running"
    /\ qrFlow[id].chan = <<>>
    /\ qrFlow[id].closed
    /\ qrFlow'[id].state = "returned"
    /\ sessions[id] # NoRow

C26_Original ==
    [][\A id \in SessionIds :
          (StreamCloses(id) /\ ~qrFlow[id].wasSuccessful)
             => /\ sessions'[id].Status = StatusDisconnected
                /\ sessions'[id].QRCode = EmptyString
                /\ ~whatsmeowClients'[id].connected
                /\ qrFlow'[id].state = "returned"]_vars

(***************************************************************************)
(* C27. On a pairing success event the flow persists the status            *)
(* "connected" together with the device identifier and the phone number of *)
(* the authenticated connection, and clears the persisted pairing code;    *)
(* after a success the close of the event stream changes neither the       *)
(* persisted record nor the connection.                                    *)
(***************************************************************************)
C27_Original ==
    [][\A id \in SessionIds :
          /\ QRHandles(id, "success")
                => /\ sessions'[id].Status = StatusConnected
                   /\ sessions'[id].DeviceJid = JIDString(AccountOf(id))
                   /\ sessions'[id].Phone = PhoneOf(AccountOf(id))
                   /\ sessions'[id].QRCode = EmptyString
          /\ (StreamCloses(id) /\ qrFlow[id].wasSuccessful)
                => /\ sessions' = sessions
                   /\ whatsmeowClients' = whatsmeowClients]_vars

(***************************************************************************)
(* C28. A repository write that fails in the pairing flow does not end the *)
(* flow: after a failed write of the QR code the flow is still running and *)
(* has consumed the event; after a failed write of "disconnected" on a     *)
(* timeout or on the close of the stream the connection is closed all the  *)
(* same; after a failed write of "connected" on a success the pairing code *)
(* is still cleared.                                                       *)
(***************************************************************************)
C28_WriteFailureGoesOn ==
    [][\A id \in SessionIds, saved \in SUBSET RepoWrites :
          /\ (QRHandle(id, saved) /\ sessions[id] # NoRow)
                => LET evt == Head(qrFlow[id].chan).Event
                   IN  /\ (evt = "code" /\ "UpdateQRCode" \notin saved)
                             => /\ qrFlow'[id].state = "running"
                                /\ qrFlow'[id].chan = Tail(qrFlow[id].chan)
                                /\ sessions' = sessions
                       /\ (evt = "timeout" /\ "SetDisconnected" \notin saved)
                             => /\ ~whatsmeowClients'[id].connected
                                /\ qrFlow'[id].state = "returned"
                                /\ sessions' = sessions
                       /\ (evt = "success" /\ "SetConnected" \notin saved
                              /\ "UpdateQRCode" \in saved)
                             => /\ sessions'[id].QRCode = EmptyString
                                /\ sessions'[id].Status = sessions[id].Status
                                /\ qrFlow'[id].wasSuccessful
          /\ (QRClosed(id, saved) /\ sessions[id] # NoRow
                 /\ ~qrFlow[id].wasSuccessful /\ "SetDisconnected" \notin saved)
                => /\ ~whatsmeowClients'[id].connected
                   /\ qrFlow'[id].state = "returned"
                   /\ sessions' = sessions]_vars

\* a code was stored, the success was handled, the write of "connected" failed
\* and the code is cleared
C28_Witness ==
    /\ qrFlow["s1"].wasSuccessful
    /\ qrFlow["s1"].codes = 1
    /\ whatsmeowClients["s1"].storeID = AccountOf("s1")
    /\ sessions["s1"] # NoRow
    /\ sessions["s1"].DeviceJid = EmptyString
    /\ sessions["s1"].Status # StatusConnected
    /\ sessions["s1"].QRCode = EmptyString

(***************************************************************************)
(* C29. The reconnection supervisor launches a task exactly for the        *)
(* persisted sessions with status "connected" and a device identifier, and *)
(* never touches another session; a task ends in one of three ways: the id *)
(* is already registered and the task changes nothing; the device does not *)
(* resolve or the connection fails, the persisted status is "disconnected" *)
(* and the task registers no client; the connection succeeds, the task     *)
(* registers a new client and the persisted status is still "connected".   *)
(***************************************************************************)
\* the rows ConnectOnStartup picks
Reconnectable(id) ==
    /\ sessions[id].Status = StatusConnected
    /\ sessions[id].DeviceJid # EmptyString

\* ConnectOnStartup's step
Launches ==
    (~startup /\ startup')
       => /\ \A id \in SessionIds :
                reconnect'[id] = IF Reconnectable(id)
                                 THEN [pc |-> "check", err |-> "none"]
                                 ELSE NoTask
          /\ UNCHANGED <<sessions, whatsmeowClients>>

\* a session without a task is left alone
NoTaskNoTouch ==
    \A id \in SessionIds :
        (startup /\ reconnect[id] = NoTask)
           => /\ reconnect'[id] = NoTask
              /\ sessions'[id] = sessions[id]

\* a step of the task of id
TaskStep(id) ==
    (reconnect[id].pc # "none" /\ reconnect'[id] # reconnect[id])
       => LET pc == reconnect[id].pc
              next == reconnect'[id]
          IN  /\ pc = "check"
                    => /\ UNCHANGED <<sessions, whatsmeowClients>>
                       /\ IF whatsmeowClients[id] # NoClient
                          THEN next = [pc |-> "done", err |-> "none"]
                          ELSE next = [pc |-> "connect", err |-> "none"]
              /\ pc = "connect"
                    => /\ whatsmeowClients' = whatsmeowClients
                       /\ \/ /\ next.pc = "register"
                             /\ next.err = "none"
                             /\ sessions' = sessions
                          \/ /\ next.pc = "failed"
                             /\ next.err \in {ErrDeviceNotFound, ErrNoDeviceID,
                                              ErrConnect}
                             /\ sessions'[id].Status = StatusDisconnected
              /\ pc = "failed"
                    => /\ next = [pc |-> "done", err |-> reconnect[id].err]
                       /\ whatsmeowClients' = whatsmeowClients
                       /\ sessions'[id].Status = StatusDisconnected
              /\ pc = "register"
                    => /\ next = [pc |-> "done", err |-> "none"]
                       /\ whatsmeowClients'[id].h = nextClient + 1
                       /\ whatsmeowClients'[id].connected
                       /\ sessions' = sessions
              /\ pc = "done" => FALSE

\* how a task that is over left its session
TaskEnded(id) ==
    reconnect[id].pc = "done"
       => /\ reconnect[id].err # "none"
                => sessions[id].Status = StatusDisconnected
          /\ reconnect[id].err = "none"
                => /\ whatsmeowClients[id] # NoClient
                   /\ sessions[id].Status = StatusConnected

C29_Supervisor ==
    /\ [][/\ Launches
          /\ NoTaskNoTouch
          /\ OthersUntouched
          /\ \A id \in SessionIds : TaskStep(id)]_vars
    /\ [](\A id \in SessionIds : TaskEnded(id))

\* s1 was registered by a caller and its task changed nothing; the connection
\* of s2 was refused
C29_Witness ==
    /\ reconnect["s1"] = [pc |-> "done", err |-> "none"]
    /\ whatsmeowClients["s1"] # NoClient
    /\ ~whatsmeowClients["s1"].connected
    /\ sessions["s1"].Status = StatusConnected
    /\ reconnect["s2"] = [pc |-> "done", err |-> ErrConnect]
    /\ whatsmeowClients["s2"] = NoClient
    /\ sessions["s2"].Status = StatusDisconnected

(***************************************************************************)
(* Event dispatch and the Session Info Cache                               *)
(***************************************************************************)
\* C22, as stated: the handler returns for every event delivered to it, in
\* every state of the client, so it is never found inside a call that has
\* not returned.
C22_Original == handler.pc = "idle"

\* a callWebhook goroutine ran for the postmap at the head
WebhookCalled ==
    /\ webhookCalls # <<>>
    /\ webhookCalls' = Tail(webhookCalls)
    /\ prepared' = prepared + 1

\* C23, as stated: for a classified event the client subscribes to, the
\* dispatcher submits a delivery to the Webhook Delivery Engine, which
\* enqueues it for every scope whose configuration subscribes the event; for
\* an unsubscribed or unclassified event nothing is submitted.
C23_Original ==
    [][/\ WebhookCalled /\ Subscribes(globalConfig, Head(webhookCalls).type)
          => EnqueuedFor(GlobalScope, Head(webhookCalls).type)
       /\ \A evt \in ClientEvents :
             (EventHandler(evt)
                 /\ ~(evt \in ClassifiedEvents
                         /\ ClientShouldSendEvent(zc.Subscriptions, evt)))
                => webhookCalls' = webhookCalls /\ deliveries' = deliveries]_vars

\* the item under a key carries no authentication material
LoggedOutInfo(info) ==
    /\ info.Status = "disconnected"
    /\ info.JID = EmptyString
    /\ info.QRCode = EmptyString

\* C24, as stated: after a successful LogoutSessionByAPIKey, and after a
\* LoggedOut event of an active client, the item of that credential and
\* session is gone or has status disconnected and empty JID and QR code.
C24_Original ==
    [][/\ \A apiKey \in APIKeys, id \in Requested :
             (LogoutSessionByAPIKey(apiKey, id, TRUE) /\ lastCall'.err = "none")
                => LET info == cache'[BuildCacheKey(apiKey, id)]
                   IN  info = NoInfo \/ LoggedOutInfo(info)
       /\ (EventHandler("LoggedOut") /\ zc.IsActive)
             => LET info == cache'[BuildCacheKey(zc.APIKey, zc.SessionID)]
                IN  info = NoInfo \/ LoggedOutInfo(info)]_vars

\* C25, as stated: once a delete request for a session has completed, the
\* cache holds no item for that session under any credential, and
\* ValidateAPIKey is not answered from the cache for a session without a row.
C25_Original ==
    [][/\ \A id \in Requested :
             (HandleDeleteSession(id) /\ lastCall'.err = "none")
                => \A apiKey \in APIKeys : cache'[BuildCacheKey(apiKey, id)] = NoInfo
       /\ \A apiKey \in APIKeys, id \in Requested :
             (ValidateAPIKey(apiKey, id) /\ sessions[id] = NoRow)
                => lastAuth'.from # "cache"]_vars

(***************************************************************************)
(* Retry scheduling                                                        *)
(***************************************************************************)
\* a worker got an answer that is no success for the delivery it held
AttemptFailed(d) ==
    /\ \E w \in WorkerIds : holding[w] = d /\ holding'[w] = 0
    /\ deliveries'[d].Status # StatusSuccess

\* C31, as stated: after the k-th failed attempt with k < maxRetries the
\* resubmission is scheduled after k times the retry delay unit of the
\* configuration that produced the delivery, the delays of one delivery grow
\* strictly, and with k >= maxRetries nothing is scheduled and the delivery
\* is expired.
C31_Original ==
    [][\A d \in DeliveryIds :
          AttemptFailed(d)
             => LET k == deliveries[d].Attempts
                IN  IF k < deliveries[d].MaxRetries
                    THEN /\ d \in retryPending'
                         /\ deliveries'[d].NextRetry = k * producedBy[d].RetryDelay
                         /\ deliveries'[d].NextRetry > deliveries[d].NextRetry
                    ELSE /\ d \notin retryPending'
                         /\ deliveries'[d].Status = StatusExpired]_vars

\* a pending delivery that was attempted and that nothing holds any more: not
\* the queue, not a worker, not a retry goroutine
Lost(d) ==
    /\ deliveries[d].Status = StatusPending
    /\ deliveries[d].Attempts > 0
    /\ ~InQueue(d)
    /\ ~InFlight(d)
    /\ d \notin retryPending

LostNext(d) ==
    /\ deliveries'[d] = deliveries[d]
    /\ \A i \in 1..Len(deliveryQueue') : deliveryQueue'[i] # d
    /\ \A w \in WorkerIds : holding'[w] # d
    /\ d \notin retryPending'

\* C32: a retry that fires on a full queue is dropped: the queue and the
\* counters stay as they are, no fault is raised, and from then on nothing
\* holds the delivery, so it is never attempted again.
C32_RetryDropped ==
    [][\A d \in DeliveryIds :
          /\ (RetryWakes(d) /\ ~queueClosed /\ Len(deliveryQueue) >= QueueCap)
                => /\ deliveryQueue' = deliveryQueue
                   /\ stats' = stats
                   /\ fault' = fault
                   /\ LostNext(d)
          /\ Lost(d) => LostNext(d)]_vars

\* a retry was dropped on a full queue, the workers have emptied the queue
\* since, and the dropped delivery is still pending with nothing holding it
C32_Witness ==
    /\ warnings.RetryDropped > 0
    /\ deliveryQueue = <<>>
    /\ \A w \in WorkerIds : holding[w] = 0
    /\ retryPending = {}
    /\ \E d \in DeliveryIds : Lost(d)

(***************************************************************************)
(* Statistics                                                              *)
(***************************************************************************)
\* C39, as stated: in every snapshot TotalSuccess + TotalFailed <= TotalSent
\* and QueueSize is between 0 and the capacity; TotalSent grows only by a
\* submission that was accepted into the queue; no counter ever decreases.
C39_Original ==
    /\ [](/\ GetStats.TotalSuccess + GetStats.TotalFailed <= GetStats.TotalSent
          /\ GetStats.QueueSize >= 0
          /\ GetStats.QueueSize <= QueueCap
          /\ GetStats.TotalSent <= Len(deliveries))
    /\ [][/\ stats'.TotalSent >= stats.TotalSent
          /\ stats'.TotalSuccess >= stats.TotalSuccess
          /\ stats'.TotalFailed >= stats.TotalFailed
          /\ stats'.TotalRetries >= stats.TotalRetries]_vars

(***************************************************************************)
(* Progress of accepted deliveries                                         *)
(***************************************************************************)
Accepted(d) == d <= Len(deliveries)

Terminal(d) ==
    /\ Accepted(d)
    /\ deliveries[d].Status \in {StatusSuccess, StatusExpired, StatusFailed}

\* the retry of d found the queue full: d is pending with attempts left and
\* nothing holds it
RetryDropped(d) == Accepted(d) /\ Lost(d) /\ ShouldRetry(deliveries[d])

\* C40, as stated: with fair workers, returning HTTP attempts and no Stop,
\* every delivery accepted into the queue eventually reaches a terminal
\* status (success, expired or failed).
C40_Original ==
    \A d \in 1..RetryDeliveries : Accepted(d) ~> Terminal(d)

\* C40, amended: with fair workers, returning HTTP attempts and no Stop,
\* every delivery accepted into the queue eventually reaches a terminal
\* status or has a retry dropped on a full queue, after which it stays
\* pending.
C40_TerminalOrDropped ==
    \A d \in 1..RetryDeliveries : Accepted(d) ~> (Terminal(d) \/ RetryDropped(d))

\* a delivery went through every retry and expired, and another one
\* succeeded on a retry
C40_Witness ==
    \E d, o \in 1..RetryDeliveries :
        /\ Terminal(d) /\ Terminal(o)
        /\ deliveries[d].Status = StatusExpired
        /\ deliveries[d].Attempts = deliveries[d].MaxRetries
        /\ deliveries[o].Status = StatusSuccess
        /\ deliveries[o].Attempts > 1

(***************************************************************************)
(* The connect request next to the pairing flow it started                 *)
(***************************************************************************)
\* handleQREvents, started by the connect request that is still in flight,
\* has written the outcome of the pairing: connected after "success",
\* disconnected after "timeout" or after the channel was closed
FlowOutcomePersisted(id) ==
    /\ id \in qrRequest
    /\ qrFlow[id].wasSuccessful \/ qrFlow[id].state = "returned"
    /\ sessions[id] # NoRow
    /\ sessions[id].Status \in {StatusConnected, StatusDisconnected}

\* C33, as stated: once the pairing flow has persisted its outcome, the
\* "connecting" status of the connect request that started the flow never
\* overwrites it.
C33_Original ==
    [][\A id \in SessionIds :
          FlowOutcomePersisted(id) => sessions'[id].Status # StatusConnecting]_vars

\* sm.ConnectSession refuses the request before any call on the client: the
\* session has no handle in the registry, or its connection is already open
ConnectRejected(id) ==
    \/ whatsmeowClients[id] = NoClient
    \/ whatsmeowClients[id].connected

\* C37, as stated: a connect request that is rejected because the session is
\* not registered or already connected leaves the persisted record as it was.
C37_Original ==
    [][\A id \in SessionIds :
          (ConnectRejected(id) /\ \E ok \in BOOLEAN : HandleConnectSession(id, ok))
              => sessions'[id] = sessions[id]]_vars

(***************************************************************************)
(* The persisted record                                                    *)
(***************************************************************************)
\* C35, as stated: in every reachable state a session whose persisted status
\* is disconnected has an empty persisted QR field.
C35_Original ==
    \A id \in SessionIds :
        (sessions[id] # NoRow /\ sessions[id].Status = StatusDisconnected)
            => sessions[id].QRCode = EmptyString

(***************************************************************************)
(* The handle and the persisted record                                     *)
(***************************************************************************)
\* the last request closed the connection of id (DisconnectSession) or
\* removed its handle (DeleteSession, called by the DELETE handler)
ClosedByOrchestrator(id) ==
    /\ lastCall.id = id
    /\ lastCall.err = "none"
    /\ lastCall.op \in {"DisconnectSession", "DELETE"}

\* the pairing flow of id ended on a timeout
PairingTimedOut(id) == qrFlow[id].state = "returned" /\ qrFlow[id].last = "timeout"

\* the record of id is gone or its status is not connected
NotPersistedConnected(id) ==
    sessions[id] = NoRow \/ sessions[id].Status # StatusConnected

\* C34, as stated: every operation of the orchestrator that closes a
\* connection or removes the handle of a session, and every pairing timeout,
\* is followed by a write after which the persisted status of the session is
\* not connected, or its record is gone.
C34_Original ==
    \A id \in SessionIds :
        (ClosedByOrchestrator(id) \/ PairingTimedOut(id)) ~> NotPersistedConnected(id)

(***************************************************************************)
(* handleQREvents goroutines of a session                                  *)
(***************************************************************************)
\* the number of handleQREvents goroutines of id that have not returned
HandleQREventsRunning(id) ==
    (IF qrFlow[id].state = "running" THEN 1 ELSE 0) + superseded[id]

\* C38, as stated: for each session id at most one handleQREvents is running
\* at any time.
C38_Original ==
    \A id \in SessionIds : HandleQREventsRunning(id) <= 1

(***************************************************************************)
(* Events and the Session Info Cache                                       *)
(***************************************************************************)
\* what the item of the client's session holds once the event is handled
EventRecorded(info, evt, id) ==
    CASE evt = "Connected" -> info.Status = "connected"
      [] evt = "Disconnected" -> info.Status = "disconnected"
      [] evt = "QR" -> info.QRCode # EmptyString
      [] evt = "PairSuccess" -> info.JID = JIDString(AccountOf(id))
      [] evt = "LoggedOut" -> LoggedOutInfo(info)
      [] OTHER -> TRUE

\* C36, as stated: every Connected, Disconnected, QR, PairSuccess and
\* LoggedOut event handed to the handler, from the first one after the client
\* was created, is recorded in the item of the session in the cache, and a
\* Connected event leaves the client active.
C36_Original ==
    [][\A evt \in {"Connected", "Disconnected", "QR", "PairSuccess", "LoggedOut"} :
          (/\ EventHandler(evt)
           /\ cache[BuildCacheKey(zc.APIKey, zc.SessionID)] # NoInfo)
              => /\ EventRecorded(cache'[BuildCacheKey(zc.APIKey, zc.SessionID)],
                                  evt, zc.SessionID)
                 /\ evt = "Connected" => zc'.IsActive]_vars

====
